---- MODULE Spec2Model ----
(***************************************************************************)
(* Model of the candidate resolution engine and enrichment cache of        *)
(* src/api/api.py (get_cars and the helpers it calls).                     *)
(*                                                                         *)
(* Strings are tuples of one-character strings.  An optional value (a      *)
(* Python value that may be None) is a sequence of length 0 or 1.          *)
(* Time is counted in days, the unit of CACHE_TTL_DAYS.                    *)
(***************************************************************************)
EXTENDS Integers, Sequences, FiniteSets, TLC

VARIABLES
    cache,      \* contents of data/wiki_cache.json: key -> [ts, item]
    now,        \* time.time(), in days
    catalog,    \* contents of data/cars.json, as returned by load_data
    resp,       \* the last get_cars call: query, outcome, outbound calls
    wlog,       \* history: per key, the last set call on it [at, item]
    last,       \* history: the last set call [ns, arg, item, at]
    nreq,       \* number of get_cars calls so far
    nsets,      \* number of cache set calls made directly on the cache
    wr,         \* concurrent writers: per writer its position and locals
    expect,     \* history: the store if every completed set had run alone
    sc,         \* scorer run: its inputs, the picked and the resolved title
    born,       \* history: per key, when its item was assembled from the network
    ex,         \* wikidata_extract_quantity_claims run: claims, position, output
    pw,         \* unit parser run: the raw text and the parsed fields
    en,         \* enrichment run: raw specs, structured claims, the item built
    lq          \* claims fetches of one resolution: entity graph, position, calls

vars == <<cache, now, catalog, resp, wlog, last, nreq, nsets, wr, expect, sc,
          born, ex, pw, en, lq>>

\* the variables of the search flow, the cache and the scorer
flowvars == <<cache, now, catalog, resp, wlog, last, nreq, nsets, wr, expect, sc,
              born>>

----------------------------------------------------------------------------
(* Bounds *)

MaxTime == 3
MaxCands == 1
MaxRich == 1
MaxWd == 1
MaxRequests == 2
MaxSets == 2
MaxScoreCands == 2
MaxCached == 1
MaxClaims == 2
MaxParts == 2
MaxFreshRequests == 4
MaxLoopCands == 2
MaxLinks == 1
MaxP31 == 1
MaxUnits == 1

\* api.py:549: wiki_search_candidates(q, limit=8)
SearchLimit == 8

\* the value of COUGAR_WIKI_CACHE_TTL_DAYS in the environment of the run
TtlDays == 2

\* api.py:447: int(os.environ.get('COUGAR_WIKI_CACHE_TTL_DAYS') or '7')
CACHE_TTL_DAYS == TtlDays

\* the first time at which an item can be more than 2 TTL old
MaxFreshTime == 2 * CACHE_TTL_DAYS + 1

None == <<>>
Some(x) == <<x>>

\* the empty dict
NoFields == [k \in {} |-> 0]

----------------------------------------------------------------------------
(* Strings *)

UpperChars == <<"A","B","C","D","E","F","G","H","I","J","K","L","M",
                "N","O","P","Q","R","S","T","U","V","W","X","Y","Z">>
LowerChars == <<"a","b","c","d","e","f","g","h","i","j","k","l","m",
                "n","o","p","q","r","s","t","u","v","w","x","y","z">>
DigitChars == {"0","1","2","3","4","5","6","7","8","9"}

Range(s) == {s[i] : i \in 1..Len(s)}

UpperSet == Range(UpperChars)
LowerOf == [c \in UpperSet |-> LowerChars[CHOOSE i \in 1..26 : UpperChars[i] = c]]

\* str.lower on one character
LowerChar(c) == IF c \in UpperSet THEN LowerOf[c] ELSE c

\* str.lower
lower(s) == [i \in 1..Len(s) |-> LowerChar(s[i])]

\* the regular expression class \d
IsDigit(c) == c \in DigitChars

\* the regular expression class \w
WordChars == Range(UpperChars) \cup Range(LowerChars) \cup DigitChars \cup {"_"}
IsWord(c) == c \in WordChars

\* re.findall(r"\w+", s): the maximal runs of word characters, in order
RECURSIVE findall_w_acc(_, _, _)
findall_w_acc(s, cur, acc) ==
    IF s = <<>>
    THEN IF cur = <<>> THEN acc ELSE Append(acc, cur)
    ELSE IF IsWord(Head(s))
         THEN findall_w_acc(Tail(s), Append(cur, Head(s)), acc)
         ELSE findall_w_acc(Tail(s), <<>>, IF cur = <<>> THEN acc ELSE Append(acc, cur))

findall_w(s) == findall_w_acc(s, <<>>, <<>>)

\* ' '.join(toks)
RECURSIVE join(_)
join(toks) ==
    IF toks = <<>> THEN <<>>
    ELSE IF Len(toks) = 1 THEN toks[1]
    ELSE toks[1] \o <<" ">> \o join(Tail(toks))

\* [t.lower() for t in re.findall(r"\w+", s.lower())]
word_tokens(s) == LET fs == findall_w(lower(s)) IN [i \in 1..Len(fs) |-> lower(fs[i])]

\* the Python test `needle in hay` on strings
contains(hay, needle) ==
    \E i \in 1..(Len(hay) - Len(needle) + 1) :
        SubSeq(hay, i, i + Len(needle) - 1) = needle

\* re.search(r"\d", t)
has_digit(t) == \E i \in 1..Len(t) : IsDigit(t[i])

\* _normalize_query keeping the case of the query
_normalize_query_keep_case(q) == join(findall_w(q))

\* api.py:469-475
_normalize_query(q) == join(word_tokens(q))

----------------------------------------------------------------------------
(* Universe of the model: queries, page titles, catalog contents *)

S_Skyline_R34 == <<"S","k","y","l","i","n","e"," ","R","3","4">>
S_Skyline_R33 == <<"S","k","y","l","i","n","e"," ","R","3","3">>
S_R34_Skyline == <<"R","3","4"," ","S","k","y","l","i","n","e">>
S_skyline_r34 == <<"s","k","y","l","i","n","e","-","r","3","4">>
S_Skyline == <<"S","k","y","l","i","n","e">>
S_R34 == <<"R","3","4">>
S_Q_R34 == <<"Q",":","R","3","4">>
S_Honda_Civic == <<"H","o","n","d","a"," ","C","i","v","i","c">>
S_Honda == <<"H","o","n","d","a">>
S_Civic == <<"C","i","v","i","c">>
S_civic_bang == <<"c","i","v","i","c","!">>
S_zzz == <<"z","z","z">>
S_empty == <<>>

Queries == {S_Skyline_R34, S_R34_Skyline, S_skyline_r34, S_Skyline, S_R34,
            S_Q_R34, S_Civic, S_civic_bang, S_zzz, S_empty}

Titles == {S_Skyline_R34, S_Skyline_R33, S_Skyline, S_Honda_Civic, S_Q_R34}

\* the queries sent to the search flow and the pages the searches return
FlowQueries == {S_Skyline_R34, S_skyline_r34, S_Civic, S_civic_bang, S_empty}
FlowTitles == {S_Skyline_R34, S_Honda_Civic}

\* the queries of the runs that follow the age of the cached items, and the
\* pages the searches for them return
FreshQueries == {S_Skyline, S_R34, S_Q_R34}
FreshTitles == {S_Skyline_R34, S_Q_R34}

\* the token lists and keys of the strings of the universe, computed once
Strings == Queries \cup Titles
TokensOf == [s \in Strings |-> word_tokens(s)]
QueryKeyOf == [q \in Queries |-> <<"q", ":">> \o _normalize_query(q)]
TitleKeyOf == [t \in Titles |-> lower(t)]

\* an item of the catalog or an Enriched Item (api.py:744-759)
Item(name, manufacturer, year, specs) ==
    [name |-> name, manufacturer |-> manufacturer, year |-> year, specs |-> specs]

CivicItem == Item(S_Civic, S_Honda, <<"1","9","9","9">>, NoFields)

\* data/cars.json missing or empty, or holding one record
Catalogs == {<<>>, <<CivicItem>>}

\* raw infobox keys that need no unit parsing, in the order of api.py:99-114
SpecOrder == <<"engine", "transmission", "drivetrain", "production">>
S_cell == <<"x">>
InfoBox(n) == [k \in {SpecOrder[i] : i \in 1..n} |-> S_cell]
InfoBoxes == {InfoBox(n) : n \in 0..MaxRich}

\* one record of wikidata_extract_quantity_claims (api.py:205); the amount
\* is None or a number, the unit label None or a string
QuantityRecord(amt, unit_label, raw_unit) ==
    [amount |-> amt, unit_label |-> unit_label, raw_unit |-> raw_unit]

S_kilogram == <<"k","i","l","o","g","r","a","m">>

\* the quantities of an entity with n properties, in the order WdPropOrder
WdPropOrder == <<"P2067", "P2048", "P2049">>
Quantities(n) ==
    [p \in {WdPropOrder[i] : i \in 1..n} |->
        <<QuantityRecord(Some(1500000), Some(S_kilogram), None)>>]

\* what wikidata_fetch_claims_for_title returns: None, or the block
\* {'qid', 'quantities', 'linked'} (api.py:287)
WdBlock(quantities, linked) ==
    [qid |-> "Q1", quantities |-> quantities, linked |-> linked]
WdBlocks == {None} \cup
            {Some(WdBlock(Quantities(n), NoFields)) : n \in 0..MaxWd}

\* the responses to the structured-claim fetch for the resolved title
TitleWdBlocks == {None, Some(WdBlock(Quantities(1), NoFields))}

\* the responses to the two fetches made for one candidate
\* the description the knowledge graph holds for the entity of a title; the
\* entity is requested with props=claims|labels (api.py:150) and the block of
\* api.py:287 has no 'description' key, so it is not part of wd
S_film == <<"1","9","9","9"," ","f","i","l","m">>
Descriptions == {<<>>, S_film}

\* the described entity of the model is the one with the most quantities
Pages ==
    {p \in [specs : InfoBoxes, wd : WdBlocks, description : Descriptions] :
        p.description # <<>> => p.wd = Some(WdBlock(Quantities(MaxWd), NoFields))}
NoPage == [specs |-> NoFields, wd |-> None, description |-> <<>>]

----------------------------------------------------------------------------
(* Enrichment cache, api.py:450-523 *)

EmptyStore == [k \in {} |-> None]
Entry(ts, item) == [ts |-> ts, item |-> item]

\* api.py:450-457: the whole store as it is on disk
_load_cache(file) == file

\* api.py:460-466: the whole store replaces the file
_save_cache(c) == c

\* store_put starting from an empty mapping instead of the loaded store
store_put_fresh(c, key, item, t) == [k \in {key} |-> Entry(t, item)]

\* cache[key] = {'ts': time.time(), 'item': item}, api.py:498 and 522
store_put(c, key, item, t) ==
    [k \in DOMAIN c \cup {key} |-> IF k = key THEN Entry(t, item) ELSE c[k]]

\* key = 'q:' + _normalize_query(q), api.py:481 and 497
query_key(q) == QueryKeyOf[q]
\* key = title.lower(), api.py:504 and 521
title_key(title) == TitleKeyOf[title]

\* entry_get comparing the age in seconds with the TTL in days
entry_get_seconds(c, key, t) ==
    IF key \notin DOMAIN c THEN None
    ELSE IF (t - c[key].ts) * 86400 > CACHE_TTL_DAYS THEN None
    ELSE Some(c[key].item)

\* the TTL test shared by both getters, api.py:486-490 and 509-514
entry_get(c, key, t) ==
    IF key \notin DOMAIN c THEN None
    ELSE IF t - c[key].ts > CACHE_TTL_DAYS THEN None
    ELSE Some(c[key].item)

\* api.py:478-492
_cache_get_query(file, q, t) == entry_get(_load_cache(file), query_key(q), t)

\* api.py:495-499, given the file: the file after the call
_cache_set_query(file, q, item, t) ==
    _save_cache(store_put(_load_cache(file), query_key(q), item, t))

\* title is a string here; _cache_get(None) raises at api.py:504
_cache_get(file, title, t) == entry_get(_load_cache(file), title_key(title), t)

\* api.py:519-523, given the file: the file after the call
_cache_set(file, title, item, t) ==
    _save_cache(store_put(_load_cache(file), title_key(title), item, t))

----------------------------------------------------------------------------
(* Numbers: a Python float is kept as a whole number of thousandths; the    *)
(* texts and amounts of the model carry at most three decimals.             *)

DigitSeq == <<"0","1","2","3","4","5","6","7","8","9">>
DigitValOf == [c \in DigitChars |-> (CHOOSE i \in 1..10 : DigitSeq[i] = c) - 1]

\* the value of a string of digits
RECURSIVE digits_value(_)
digits_value(s) ==
    IF s = <<>> THEN 0
    ELSE digits_value(SubSeq(s, 1, Len(s) - 1)) * 10 + DigitValOf[s[Len(s)]]

\* the first three decimals of a string of digits after the point
frac_value(s) ==
    LET d(i) == IF i <= Len(s) THEN DigitValOf[s[i]] ELSE 0
    IN  d(1) * 100 + d(2) * 10 + d(3)

\* float(s) for s made of digits and points: None when Python raises
\* ValueError (no digit, or more than one point)
unsigned_float(s) ==
    LET points == {i \in 1..Len(s) : s[i] = "."}
    IN  IF s = <<>> \/ \E i \in 1..Len(s) : ~IsDigit(s[i]) /\ s[i] # "."
        THEN None
        ELSE IF Cardinality(points) > 1 \/ Cardinality(points) = Len(s)
        THEN None
        ELSE IF points = {}
        THEN Some(digits_value(s) * 1000)
        ELSE LET p == CHOOSE i \in points : TRUE
             IN  Some(digits_value(SubSeq(s, 1, p - 1)) * 1000
                      + frac_value(SubSeq(s, p + 1, Len(s))))

\* float(s): an optional sign, then digits with at most one point
float(s) ==
    IF s # <<>> /\ s[1] \in {"+", "-"}
    THEN LET v == unsigned_float(Tail(s))
         IN  IF v = None THEN None
             ELSE IF s[1] = "-" THEN Some(0 - v[1]) ELSE v
    ELSE unsigned_float(s)

\* str.lstrip(c)
RECURSIVE lstrip(_, _)
lstrip(s, c) == IF s # <<>> /\ Head(s) = c THEN lstrip(Tail(s), c) ELSE s

\* str.rstrip(c)
RECURSIVE rstrip(_, _)
rstrip(s, c) ==
    IF s # <<>> /\ s[Len(s)] = c THEN rstrip(SubSeq(s, 1, Len(s) - 1), c) ELSE s

\* s.rsplit(c, 1)[-1]: what follows the last c, all of s when it has none
after_last(s, c) ==
    LET at == {i \in 1..Len(s) : s[i] = c}
    IN  IF at = {} THEN s
        ELSE SubSeq(s, (CHOOSE i \in at : \A j \in at : j <= i) + 1, Len(s))

\* str.startswith
startswith(s, prefix) ==
    Len(s) >= Len(prefix) /\ SubSeq(s, 1, Len(prefix)) = prefix

\* x * num = q * den + r with 0 <= r < den, for x >= 0, digit by digit so
\* that no intermediate product leaves the 32-bit range
RECURSIVE muldiv(_, _, _)
muldiv(x, num, den) ==
    IF x < 10
    THEN [q |-> (x * num) \div den, r |-> (x * num) % den]
    ELSE LET h == muldiv(x \div 10, num, den)
             t == 10 * h.r + (x % 10) * num
         IN  [q |-> 10 * h.q + t \div den, r |-> t % den]

\* round(x * num / den) to the nearest whole number, ties to even
half_even(m, den) ==
    IF 2 * m.r < den THEN m.q
    ELSE IF 2 * m.r > den THEN m.q + 1
    ELSE IF m.q % 2 = 0 THEN m.q ELSE m.q + 1

round_ratio(x, num, den) == half_even(muldiv(x, num, den), den)

\* round(v, 1) of v thousandths, in thousandths
round1(v) == round_ratio(v, 1, 100) * 100

\* round(v * num / den, 1), in thousandths
round1_ratio(v, num, den) == round_ratio(v, num, den * 100) * 100

\* int(round(v)), in thousandths
round0(v) == round_ratio(v, 1, 1000) * 1000

\* round(v, 3) of v thousandths
round3(v) == round_ratio(v, 1, 1)

\* round(v * num / den, 3), in thousandths
round3_ratio(v, num, den) == round_ratio(v, num, den)

----------------------------------------------------------------------------
(* Structured claims of a knowledge-graph entity, api.py:143-206 *)

S_http == <<"h","t","t","p">>
S_entity_url == S_http \o <<":","/","/","w","d","/","e","/">>
S_unit_Q1 == S_entity_url \o <<"Q","1">>
S_unit_Q1_slash == S_unit_Q1 \o <<"/">>
S_unit_Q2 == S_entity_url \o <<"Q","2">>
S_unit_one == <<"1">>

S_watt == <<"w","a","t","t">>
S_kilowatt == <<"k","i","l","o">> \o S_watt
S_horsepower == <<"h","o","r","s","e","p","o","w","e","r">>
S_hp == <<"h","p">>
S_newton == <<"n","e","w","t","o","n">>

S_plus_150 == <<"+","1","5","0">>
S_plus_plus_5 == <<"+","+","5">>
S_abc == <<"a","b","c">>

\* one claim of entity['claims'][prop]: a quantity, an entity reference, or
\* a snak without datavalue
QuantityClaim(prop, amount, unit) ==
    [prop |-> prop, type |-> "quantity", amount |-> amount, unit |-> unit]
EntityIdClaim(prop, id) ==
    [prop |-> prop, type |-> "wikibase-entityid", id |-> id]
NoValueClaim(prop) == [prop |-> prop, type |-> "novalue"]

\* what wikidata_get_entity returns for a unit: None, or an entity with or
\* without an English label (api.py:143-157)
UnitResponses ==
    {None, Some([label |-> None])}
        \cup {Some([label |-> Some(l)]) : l \in {S_watt, S_kilowatt}}

\* the value of amt after api.py:197-203: None when both float calls raise
\* (q.lstrip raises AttributeError when the amount is missing)
parse_amount(q) ==
    IF q = None THEN None
    ELSE LET first == float(q[1])
         IN  IF first # None THEN first ELSE float(lstrip(q[1], "+"))

\* the label of a unit entity as _resolve_unit_label reads it, api.py:172-174
label_of(ent) == IF ent = None THEN None ELSE ent[1].label

UnitResult(label, unit_cache, fetched) ==
    [label |-> label, cache |-> unit_cache, fetched |-> fetched]

\* _resolve_unit_label remembering only the fetches that yielded a label
_resolve_unit_label_keep_labels(unit_url, unit_cache, ent) ==
    IF unit_url = <<>> THEN UnitResult(None, unit_cache, None)
    ELSE IF ~startswith(unit_url, S_http)
    THEN UnitResult(Some(unit_url), unit_cache, None)
    ELSE LET q == after_last(rstrip(unit_url, "/"), "/")
         IN  IF q \in DOMAIN unit_cache THEN UnitResult(unit_cache[q], unit_cache, None)
             ELSE LET lbl == label_of(ent)
                  IN  UnitResult(lbl,
                                 IF lbl = None THEN unit_cache
                                 ELSE [k \in DOMAIN unit_cache \cup {q} |->
                                         IF k = q THEN lbl ELSE unit_cache[k]],
                                 Some(q))

\* api.py:160-178: the label, the unit cache after the call and the entity
\* fetched, if any; ent is the response the fetch gets when one is made
_resolve_unit_label(unit_url, unit_cache, ent) ==
    IF unit_url = <<>> THEN UnitResult(None, unit_cache, None)
    ELSE IF ~startswith(unit_url, S_http)
    THEN UnitResult(Some(unit_url), unit_cache, None)
    ELSE LET q == after_last(rstrip(unit_url, "/"), "/")
         IN  IF q \in DOMAIN unit_cache THEN UnitResult(unit_cache[q], unit_cache, None)
             ELSE LET lbl == label_of(ent)
                  IN  UnitResult(lbl,
                                 [k \in DOMAIN unit_cache \cup {q} |->
                                     IF k = q THEN lbl ELSE unit_cache[k]],
                                 Some(q))

\* True when resolving the unit goes to the network, api.py:162-171
unit_is_fetched(unit, unit_cache) ==
    /\ unit # None
    /\ unit[1] # <<>>
    /\ startswith(unit[1], S_http)
    /\ after_last(rstrip(unit[1], "/"), "/") \notin DOMAIN unit_cache

\* out.setdefault(prop, []).append(rec), api.py:205
out_append(out, prop, rec) ==
    [p \in DOMAIN out \cup {prop} |->
        IF p = prop
        THEN (IF prop \in DOMAIN out THEN out[prop] ELSE <<>>) \o <<rec>>
        ELSE out[p]]

ExtractState(out, unit_cache, fetched) ==
    [out |-> out, unit_cache |-> unit_cache, fetched |-> fetched]

\* the body of the loop of api.py:189-205 for one claim c
extract_claim(st, c, ent) ==
    IF c.type # "quantity" THEN st
    ELSE LET amt == parse_amount(c.amount)
             u == IF c.unit # None /\ c.unit[1] # <<>>
                  THEN _resolve_unit_label(c.unit[1], st.unit_cache, ent)
                  ELSE UnitResult(None, st.unit_cache, None)
         IN  ExtractState(
                out_append(st.out, c.prop, QuantityRecord(amt, u.label, c.unit)),
                u.cache,
                IF u.fetched = None THEN st.fetched
                ELSE Append(st.fetched, u.fetched[1]))

----------------------------------------------------------------------------
(* Unit parsers, api.py:292-419 *)

\* U+202F, the narrow no-break space, as one character
NNBSP == "\\u202F"
\* U+2013, the en dash, and U+00B7, the middle dot
NDASH == "\\u2013"
MIDDOT == "\\u00B7"

\* the class [0-9,\.\u202F] and the class \s over the characters of the model
NumChars == DigitChars \cup {",", ".", NNBSP}
SpaceChars == {" ", NNBSP}

\* the end of the longest run of NumChars that starts at j
RECURSIVE num_end(_, _)
num_end(text, j) ==
    IF j < Len(text) /\ text[j + 1] \in NumChars THEN num_end(text, j + 1) ELSE j

\* the first position at or after k that is not white space
RECURSIVE skip_spaces(_, _)
skip_spaces(text, k) ==
    IF k <= Len(text) /\ text[k] \in SpaceChars THEN skip_spaces(text, k + 1) ELSE k

\* with flags=re.I the literal u (in lower case) matches at k
literal_at(text, k, u) ==
    /\ k + Len(u) - 1 <= Len(text)
    /\ lower(SubSeq(text, k, k + Len(u) - 1)) = u

\* the end of the first alternative of units that matches at k, 0 if none
unit_end(text, k, units) ==
    LET hits == {n \in 1..Len(units) : literal_at(text, k, units[n])}
    IN  IF hits = {} THEN 0
        ELSE k + Len(units[CHOOSE n \in hits : \A m \in hits : n <= m]) - 1

\* re.findall(r'([0-9][0-9,\.\u202F]*)\s*(?:u1|u2|...)', text, flags=re.I):
\* the numbers in front of a unit, left to right, matches not overlapping
RECURSIVE scan_units(_, _, _, _)
scan_units(text, units, i, acc) ==
    IF i > Len(text) THEN acc
    ELSE IF ~IsDigit(text[i]) THEN scan_units(text, units, i + 1, acc)
    ELSE LET j == num_end(text, i)
             e == unit_end(text, skip_spaces(text, j + 1), units)
         IN  IF e = 0 THEN scan_units(text, units, i + 1, acc)
             ELSE scan_units(text, units, e + 1, Append(acc, SubSeq(text, i, j)))

findall_units(text, units) == scan_units(text, units, 1, <<>>)

\* re.findall of number, dash, number, unit (api.py:338): the pairs, flattened
RECURSIVE scan_ranges(_, _, _, _)
scan_ranges(text, units, i, acc) ==
    IF i > Len(text) THEN acc
    ELSE IF ~IsDigit(text[i]) THEN scan_ranges(text, units, i + 1, acc)
    ELSE LET j == num_end(text, i)
             d == skip_spaces(text, j + 1)
             b == skip_spaces(text, d + 1)
             isdash == d <= Len(text) /\ text[d] \in {NDASH, "-"}
             j2 == num_end(text, b)
             e == IF isdash /\ b <= Len(text) /\ IsDigit(text[b])
                  THEN unit_end(text, skip_spaces(text, j2 + 1), units)
                  ELSE 0
         IN  IF e = 0 THEN scan_ranges(text, units, i + 1, acc)
             ELSE scan_ranges(text, units, e + 1,
                              acc \o <<SubSeq(text, i, j), SubSeq(text, b, j2)>>)

findall_ranges(text, units) == scan_ranges(text, units, 1, <<>>)

\* s.replace(',', '').replace('\u202F', '')
strip_separators(s) == SelectSeq(s, LAMBDA c : c \notin {",", NNBSP})

\* to_num: None when float raises ValueError (api.py:300-301)
to_num(s) == float(strip_separators(s))

\* [to_num(m) for m in ms]: None when one of the conversions raises
RECURSIVE to_nums(_)
to_nums(ms) ==
    IF ms = <<>> THEN Some(<<>>)
    ELSE LET v == to_num(Head(ms))
             rest == to_nums(Tail(ms))
         IN  IF v = None \/ rest = None THEN None
             ELSE Some(<<v[1]>> \o rest[1])

\* list(dict.fromkeys(xs)): the first occurrence of each value, in order
RECURSIVE unique(_)
unique(xs) ==
    IF xs = <<>> THEN <<>>
    ELSE LET front == unique(SubSeq(xs, 1, Len(xs) - 1))
             x == xs[Len(xs)]
         IN  IF x \in Range(front) THEN front ELSE Append(front, x)

min_of(xs) == CHOOSE x \in Range(xs) : \A y \in Range(xs) : x <= y
max_of(xs) == CHOOSE x \in Range(xs) : \A y \in Range(xs) : y <= x
RECURSIVE sum_of(_)
sum_of(xs) == IF xs = <<>> THEN 0 ELSE Head(xs) + sum_of(Tail(xs))

\* round(sum(xs) / len(xs), 1)
avg1(xs) == round1_ratio(sum_of(xs), 1, Len(xs))

\* a parser's result: the dict it returns, or None when it raises
Parsed(out) == Some(out)

\* api.py:303-308: the kilowatt fields of the numbers found
power_kw_fields(kws) ==
    IF kws = <<>> THEN NoFields
    ELSE ("power_kw_min" :> round1(min_of(kws)))
      @@ ("power_kw_max" :> round1(max_of(kws)))
      @@ ("power_kw_avg" :> avg1(kws))

\* api.py:309-314: the horsepower fields of the numbers found
power_hp_fields(hps) ==
    IF hps = <<>> THEN NoFields
    ELSE ("power_hp_min" :> round1(min_of(hps)))
      @@ ("power_hp_max" :> round1(max_of(hps)))
      @@ ("power_hp_avg" :> avg1(hps))

\* api.py:315-324: the primary fields, taken from the maxima
power_primary(out) ==
    IF "power_hp_max" \in DOMAIN out /\ "power_kw_max" \in DOMAIN out
    THEN ("power_hp" :> out["power_hp_max"])
      @@ ("power_kw" :> out["power_kw_max"])
    ELSE IF "power_hp_max" \in DOMAIN out
    THEN ("power_hp" :> out["power_hp_max"])
      @@ ("power_kw" :> round1_ratio(out["power_hp_max"], 100000, 134102))
    ELSE IF "power_kw_max" \in DOMAIN out
    THEN ("power_kw" :> out["power_kw_max"])
      @@ ("power_hp" :> round1_ratio(out["power_kw_max"], 134102, 100000))
    ELSE NoFields

power_out(out) == Parsed(power_primary(out) @@ out)

\* api.py:302-325 on the converted numbers: None when a conversion raised
power_result(kws, hps) ==
    IF kws = None \/ hps = None THEN None
    ELSE power_out(power_kw_fields(kws[1]) @@ power_hp_fields(hps[1]))

\* api.py:292-325
_parse_power(text) ==
    IF text = <<>> THEN Parsed(NoFields)
    ELSE power_result(to_nums(findall_units(text, <<<<"k","w">>>>)),
                      to_nums(findall_units(text, << <<"h","p">>, <<"p","s">> >>)))

\* the fields _parse_weight derives from kilogram values, api.py:346-354
weight_from_kgs(kgs) ==
    LET kg_min == round1(min_of(kgs))
        kg_max == round1(max_of(kgs))
        kg_avg == avg1(kgs)
        lb_max == round1_ratio(kg_max, 220462, 100000)
    IN  ("weight_kg_min" :> kg_min) @@ ("weight_kg_max" :> kg_max)
     @@ ("weight_kg_avg" :> kg_avg)
     @@ ("weight_lb_min" :> round1_ratio(kg_min, 220462, 100000))
     @@ ("weight_lb_max" :> lb_max)
     @@ ("weight_lb_avg" :> round1_ratio(kg_avg, 220462, 100000))
     @@ ("weight_kg" :> kg_max) @@ ("weight_lb" :> lb_max)

\* the fields _parse_weight derives from pound values, api.py:359-366
weight_from_lbs(lbs) ==
    LET lb_min == round1(min_of(lbs))
        lb_max == round1(max_of(lbs))
        lb_avg == avg1(lbs)
        kg_max == round1_ratio(lb_max, 100000, 220462)
    IN  ("weight_lb_min" :> lb_min) @@ ("weight_lb_max" :> lb_max)
     @@ ("weight_lb_avg" :> lb_avg)
     @@ ("weight_kg_min" :> round1_ratio(lb_min, 100000, 220462))
     @@ ("weight_kg_max" :> kg_max)
     @@ ("weight_kg_avg" :> round1_ratio(lb_avg, 100000, 220462))
     @@ ("weight_kg" :> kg_max) @@ ("weight_lb" :> lb_max)

S_kg == <<"k","g">>
S_lb == <<"l","b">>
S_lbs == <<"l","b","s">>

\* api.py:345-367 on the kilogram values and the converted pound numbers
weight_out(kgs, lbs) ==
    IF kgs # <<>> THEN Parsed(weight_from_kgs(kgs))
    ELSE IF lbs = None THEN None
    ELSE IF lbs[1] # <<>> THEN Parsed(weight_from_lbs(lbs[1]))
    ELSE Parsed(NoFields)

\* api.py:337-367 on the converted numbers: None when a conversion raised
weight_result(ranges, singles, lbs) ==
    IF ranges = None \/ singles = None THEN None
    ELSE weight_out(unique(ranges[1] \o singles[1]), lbs)

\* _parse_weight reading only the standalone kilogram numbers
_parse_weight_no_ranges(text) ==
    IF text = <<>> THEN Parsed(NoFields)
    ELSE weight_result(Some(<<>>),
                       to_nums(findall_units(text, <<S_kg>>)),
                       to_nums(findall_units(text, <<S_lb, S_lbs>>)))

\* api.py:328-367
_parse_weight(text) ==
    IF text = <<>> THEN Parsed(NoFields)
    ELSE weight_result(to_nums(findall_ranges(text, <<S_kg>>)),
                       to_nums(findall_units(text, <<S_kg>>)),
                       to_nums(findall_units(text, <<S_lb, S_lbs>>)))

\* api.py:376-380: the litre fields of the largest and smallest numbers
displacement_from_l(lo, hi) ==
    ("displacement_l_min" :> round3(lo)) @@ ("displacement_l_max" :> round3(hi))
 @@ ("displacement_l" :> round3(hi))
 @@ ("displacement_cc" :> round0(round3(hi) * 1000))

\* api.py:385-389: the cubic-centimetre fields
displacement_from_cc(lo, hi) ==
    ("displacement_cc_min" :> round0(lo)) @@ ("displacement_cc_max" :> round0(hi))
 @@ ("displacement_cc" :> round0(hi))
 @@ ("displacement_l" :> round3_ratio(round0(hi), 1, 1000))

\* api.py:374-391 on the converted numbers
displacement_result(ls, ccs) ==
    IF ls = None \/ ccs = None THEN None
    ELSE IF ls[1] # <<>>
    THEN Parsed(displacement_from_l(min_of(ls[1]), max_of(ls[1])))
    ELSE IF ccs[1] # <<>>
    THEN Parsed(displacement_from_cc(min_of(ccs[1]), max_of(ccs[1])))
    ELSE Parsed(NoFields)

\* api.py:370-391
_parse_displacement(text) ==
    IF text = <<>> THEN Parsed(NoFields)
    ELSE displacement_result(
             to_nums(findall_units(text,
                 << <<"l">>, <<"l","i","t","r","e">>, <<"l","i","t","r","e","s">> >>)),
             to_nums(findall_units(text, << <<"c","c">>, <<"c","m","3">> >>)))

\* the alternatives N\.?\s?m, Nm and N(U+00B7)m, spelled out
TorqueNm ==
    << <<"n",".", " ","m">>, <<"n",".",NNBSP,"m">>, <<"n",".","m">>,
       <<"n"," ","m">>, <<"n",NNBSP,"m">>, <<"n","m">>, <<"n",MIDDOT,"m">> >>

\* the alternatives lb-?ft and ft-lb, spelled out
TorqueLbft ==
    << <<"l","b","-","f","t">>, <<"l","b","f","t">>, <<"f","t","-","l","b">> >>

\* api.py:401-408: the fields of newton-metre values lo and hi, rounded
torque_from_nm(lo, hi) ==
    ("torque_nm_min" :> lo) @@ ("torque_nm_max" :> hi) @@ ("torque_nm" :> hi)
 @@ ("torque_lbft_min" :> round1_ratio(lo, 737562, 1000000))
 @@ ("torque_lbft_max" :> round1_ratio(hi, 737562, 1000000))
 @@ ("torque_lbft" :> round1_ratio(hi, 737562, 1000000))

\* api.py:411-418: the fields of pound-foot values lo and hi, rounded
torque_from_lbft(lo, hi) ==
    ("torque_lbft_min" :> lo) @@ ("torque_lbft_max" :> hi) @@ ("torque_lbft" :> hi)
 @@ ("torque_nm_min" :> round1_ratio(lo, 1000000, 737562))
 @@ ("torque_nm_max" :> round1_ratio(hi, 1000000, 737562))
 @@ ("torque_nm" :> round1_ratio(hi, 1000000, 737562))

\* api.py:398-419 on the converted numbers
torque_result(nms, lbfts) ==
    IF nms = None \/ lbfts = None THEN None
    ELSE IF nms[1] # <<>>
    THEN Parsed(torque_from_nm(round1(min_of(nms[1])), round1(max_of(nms[1]))))
    ELSE IF lbfts[1] # <<>>
    THEN Parsed(torque_from_lbft(round1(min_of(lbfts[1])), round1(max_of(lbfts[1]))))
    ELSE Parsed(NoFields)

\* api.py:394-419
_parse_torque(text) ==
    IF text = <<>> THEN Parsed(NoFields)
    ELSE torque_result(to_nums(findall_units(text, TorqueNm)),
                       to_nums(findall_units(text, TorqueLbft)))

----------------------------------------------------------------------------
(* Candidate scorer, api.py:555-622 *)

\* api.py:555 and 559
qtokens_of(q) == TokensOf[q]
cand_tokens_of(cand) == TokensOf[cand]

\* api.py:560
token_score(q, cand) ==
    Cardinality(Range(qtokens_of(q)) \cap Range(cand_tokens_of(cand)))

\* api.py:562-566
model_bonus(q, cand) ==
    LET qtokens == qtokens_of(q)
        cand_tokens == cand_tokens_of(cand)
        base == IF \E i \in 1..Len(cand_tokens) : has_digit(cand_tokens[i]) THEN 1 ELSE 0
        query_has_model_token == \E i \in 1..Len(qtokens) : has_digit(qtokens[i])
    IN  IF query_has_model_token
           /\ \E i \in 1..Len(cand_tokens) : cand_tokens[i] \in Range(qtokens)
        THEN 6
        ELSE base

\* api.py:574-578
cached_score(q, cand, item) ==
    Cardinality(DOMAIN item.specs) * 20 + token_score(q, cand) * 5 + model_bonus(q, cand) * 5

\* api.py:591-600
RECURSIVE linked_count(_, _)
linked_count(linked, qids) ==
    IF qids = {} THEN 0
    ELSE LET lk == CHOOSE x \in qids : TRUE
             qs == linked[lk].quantities
             RECURSIVE count(_)
             count(ps) == IF ps = {} THEN 0
                          ELSE LET pp == CHOOSE x \in ps : TRUE
                               IN  Len(qs[pp]) + count(ps \ {pp})
         IN  count(DOMAIN qs) + linked_count(linked, qids \ {lk})

wd_richness(wd) ==
    IF wd = None THEN 0
    ELSE Cardinality(DOMAIN wd[1].quantities)
            + linked_count(wd[1].linked, DOMAIN wd[1].linked)

\* (wd or {}).get('description') or '', api.py:604
wd_description(wd) ==
    IF wd = None THEN <<>>
    ELSE IF "description" \in DOMAIN wd[1] THEN wd[1].description
    ELSE <<>>

bad_keywords == {
    <<"c","o","m","p","a","n","y">>,
    <<"m","a","n","u","f","a","c","t","u","r","e","r">>,
    <<"b","u","s","i","n","e","s","s">>,
    <<"o","r","g","a","n","i","z","a","t","i","o","n">>,
    <<"s","o","f","t","w","a","r","e">>,
    <<"f","i","l","m">> }

\* api.py:602-610
non_vehicle_penalty(wd) ==
    LET desc == wd_description(wd)
    IN  IF desc # <<>> /\ \E bk \in bad_keywords : contains(lower(desc), bk)
        THEN 50 ELSE 0

\* api.py:583-613
fetched_score(q, cand, page) ==
    Cardinality(DOMAIN page.specs) * 8 + wd_richness(page.wd) * 12
        + token_score(q, cand) * 4 + model_bonus(q, cand) * 5
        - non_vehicle_penalty(page.wd)

\* True when the loop fetches the candidate's pages: it overlaps the query
\* and has no valid title-cache entry (api.py:568-583)
is_fetched(q, cand, c, t) ==
    token_score(q, cand) > 0 /\ _cache_get(c, cand, t) = None

\* cand_score without the `continue` on zero token overlap
cand_score_no_skip(q, cand, page, c, t) ==
    LET cached_cand == _cache_get(c, cand, t)
    IN  IF cached_cand # None
        THEN Some(cached_score(q, cand, cached_cand[1]))
        ELSE Some(fetched_score(q, cand, page))

\* the score of one candidate, None when the loop skips it (api.py:568-569)
cand_score(q, cand, page, c, t) ==
    IF token_score(q, cand) = 0 THEN None
    ELSE LET cached_cand == _cache_get(c, cand, t)
         IN  IF cached_cand # None
             THEN Some(cached_score(q, cand, cached_cand[1]))
             ELSE Some(fetched_score(q, cand, page))

Best(title, score) == [title |-> title, score |-> score]

\* better with >= in place of >
better_or_equal(score, best) == score >= best.score

\* `if cand_score > best[1]: best = (cand, cand_score)`, api.py:579 and 620
better(score, best) == score > best.score

\* the loop of api.py:556-622 from candidate i on
RECURSIVE score_loop(_, _, _, _, _, _, _)
score_loop(q, candidates, pages, c, t, i, best) ==
    IF i > Len(candidates) THEN best
    ELSE LET s == cand_score(q, candidates[i], pages[i], c, t)
             nb == IF s # None /\ better(s[1], best)
                   THEN Best(Some(candidates[i]), s[1])
                   ELSE best
         IN  score_loop(q, candidates, pages, c, t, i + 1, nb)

\* api.py:550-622: title = None, or best[0] when candidates is not empty
score_and_select(q, candidates, pages, c, t) ==
    IF candidates = <<>> THEN None
    ELSE score_loop(q, candidates, pages, c, t, 1, Best(None, -1)).title

\* api.py:624-633: the top hit is accepted only if it shares a token
accept_top(q, top) ==
    IF top = None \/ top = Some(<<>>) THEN None
    ELSE IF token_score(q, top[1]) > 0 THEN top ELSE None

----------------------------------------------------------------------------
(* Network responses, api.py:24-118 and 276-289 *)

\* wiki_search_candidates: up to `limit` distinct titles, [] on any failure
CandLists ==
    {s \in UNION {[1..n -> FlowTitles] : n \in 0..MaxCands} :
        \A i, j \in 1..Len(s) : i # j => s[i] # s[j]}
FreshCandLists ==
    {s \in UNION {[1..n -> FreshTitles] : n \in 0..MaxCands} :
        \A i, j \in 1..Len(s) : i # j => s[i] # s[j]}

\* wiki_search_title: the top hit or None
TopHits == {None} \cup {Some(t) : t \in FlowTitles}
FreshTopHits == {None} \cup {Some(t) : t \in FreshTitles}

\* what the two searches may return for the query q
SearchCandidates(q) == IF q \in FreshQueries THEN FreshCandLists ELSE CandLists
SearchTopHits(q) == IF q \in FreshQueries THEN FreshTopHits ELSE TopHits

\* wiki_fetch_summary: None, or the summary of the page
Summaries(title) == {None, Some([title |-> title])}

\* the responses to the fetches of the scoring loop: one page per candidate
\* the loop fetches, nothing for the candidates it skips or finds cached
PagesFor(q, candidates, c, t) ==
    {p \in [1..Len(candidates) -> Pages] :
        \A i \in 1..Len(candidates) :
            ~is_fetched(q, candidates[i], c, t) => p[i] = NoPage}

\* the same for the search flow, where the structured-claim fetch for a
\* candidate finds no entity (SpecScore covers the other responses)
FlowPages == [specs : InfoBoxes, wd : {None}, description : {<<>>}]
FlowPagesFor(q, candidates, c, t) ==
    {p \in [1..Len(candidates) -> FlowPages \cup {NoPage}] :
        \A i \in 1..Len(candidates) :
            ~is_fetched(q, candidates[i], c, t) => p[i] = NoPage}

----------------------------------------------------------------------------
(* The search flow, api.py:531-769 *)

NoResp == [q |-> <<>>, status |-> "none", items |-> <<>>, calls |-> {},
           path |-> "none", title |-> None]

\* the string get_cars matches the query against, api.py:538
match_text(i) == lower(i.name \o <<" ">> \o i.manufacturer \o <<" ">> \o i.year)

\* api.py:537-538
local_matches(items, q) ==
    SelectSeq(items, LAMBDA i : contains(match_text(i), lower(q)))

\* api.py:652-670: the raw fields the four parsers read, in the order of the
\* code
ParsedFields == <<"power", "weight", "displacement", "torque">>

\* the parser applied to the raw text of `key`
apply_parser(key, raw) ==
    CASE key = "power" -> _parse_power(raw)
      [] key = "weight" -> _parse_weight(raw)
      [] key = "displacement" -> _parse_displacement(raw)
      [] key = "torque" -> _parse_torque(raw)

\* `raw = specs.get(key); if raw: specs.update(parser(raw))` for the fields
\* from the i-th on, inside the one try of api.py:652-670: when a parser
\* raises, `except Exception: pass` leaves specs as updated so far and the
\* remaining fields are not parsed
RECURSIVE parse_fields(_, _)
parse_fields(specs, i) ==
    IF i > Len(ParsedFields) THEN specs
    ELSE LET key == ParsedFields[i]
         IN  IF key \notin DOMAIN specs THEN parse_fields(specs, i + 1)
             ELSE IF specs[key] = <<>> THEN parse_fields(specs, i + 1)
             ELSE LET r == apply_parser(key, specs[key])
                  IN  IF r = None THEN specs
                      ELSE parse_fields(r[1] @@ specs, i + 1)

\* api.py:650-670: specs after the unit parsers
parse_units(specs) == parse_fields(specs, 1)

\* `if amt:` on an amount that is None or a float
truthy_amount(amt) == amt # None /\ amt[1] # 0

\* unit = (val.get('unit_label') or '').lower() if val.get('unit_label') else ''
unit_of(val) ==
    IF val.unit_label = None THEN <<>> ELSE lower(val.unit_label[1])

has_first(wd_q, prop) == prop \in DOMAIN wd_q /\ wd_q[prop] # <<>>

\* api.py:681-697
merge_P1100(specs, wd_q) ==
    IF ~has_first(wd_q, "P1100") THEN specs
    ELSE LET val == wd_q["P1100"][1]
             unit == unit_of(val)
         IN  IF ~truthy_amount(val.amount) THEN specs
             ELSE IF contains(unit, <<"c","e","n","t","i","m","e","t">>)
                     \/ contains(unit, <<"c","m">>)
             THEN ("displacement_cc" :> round0(val.amount[1]))
               @@ ("displacement_l" :> round3_ratio(val.amount[1], 1, 1000))
               @@ specs
             ELSE ("wikidata_P1100" :> val) @@ specs

\* api.py:699-717; the amounts of the model are whole numbers, so that
\* a / 1000.0 is a whole number of thousandths
merge_P1112(specs, wd_q) ==
    IF ~has_first(wd_q, "P1112") THEN specs
    ELSE LET val == wd_q["P1112"][1]
             unit == unit_of(val)
             a == val.amount[1]
         IN  IF ~truthy_amount(val.amount) THEN specs
             ELSE IF contains(unit, S_watt) \/ contains(unit, <<"k","w">>)
             THEN LET kw == IF contains(unit, S_watt) THEN a \div 1000 ELSE a
                  IN  ("power_kw" :> round1(kw))
                   @@ ("power_hp" :> round1_ratio(kw, 134102, 100000))
                   @@ specs
             ELSE IF contains(unit, S_hp)
             THEN ("power_hp" :> round1(a))
               @@ ("power_kw" :> round1_ratio(a, 100000, 134102))
               @@ specs
             ELSE ("wikidata_P1112" :> val) @@ specs

\* api.py:719-738
merge_P2067(specs, wd_q) ==
    IF ~has_first(wd_q, "P2067") THEN specs
    ELSE LET val == wd_q["P2067"][1]
             unit == unit_of(val)
             a == val.amount[1]
         IN  IF ~truthy_amount(val.amount) THEN specs
             ELSE IF contains(unit, <<"g","r","a","m">>) \/ contains(unit, S_kg)
             THEN LET kg == IF contains(unit, <<"g","r","a","m">>)
                               /\ ~contains(unit, S_kilogram)
                            THEN a \div 1000 ELSE a
                  IN  ("weight_kg" :> round1(kg))
                   @@ ("weight_lb" :> round1_ratio(kg, 220462, 100000))
                   @@ specs
             ELSE ("wikidata_P2067" :> val) @@ specs

Merged(specs, synth) == [specs |-> specs, synth |-> synth]

\* api.py:672-742: the merge of the structured quantities into specs, then
\* `synth['_wikidata'] = wd` (api.py:740). synth is the binding of the local
\* variable at that point, None when it is not bound yet: the assignment
\* then raises UnboundLocalError, which api.py:741-742 swallow
merge_wikidata(specs, synth, wd) ==
    IF wd = None THEN Merged(specs, synth)
    ELSE IF wd[1].quantities = NoFields THEN Merged(specs, synth)
    ELSE LET wd_q == wd[1].quantities
             merged == merge_P2067(merge_P1112(merge_P1100(specs, wd_q), wd_q), wd_q)
         IN  Merged(merged,
                    IF synth = None THEN None
                    ELSE Some(("_wikidata" :> wd[1]) @@ synth[1]))

\* api.py:744-759: the dict bound to synth, with its '_wiki' block
synth_item(title, summary, specs) ==
    ("_wiki" :> [title |-> summary.title])
        @@ Item(IF summary.title # <<>> THEN summary.title ELSE title,
                <<>>, <<>>, specs)

\* api.py:650-759: the item built for a title from its summary, its infobox
\* and its structured claims; synth is bound at api.py:744, after the merge
build_item(title, summary, specs, wd) ==
    synth_item(title, summary,
               merge_wikidata(parse_units(specs), None, wd).specs)

\* the specs build_item derives from the infoboxes and the structured claims
\* of the search flow, computed once
EnrichedSpecsOf ==
    [specs \in InfoBoxes, wd \in TitleWdBlocks |->
        merge_wikidata(parse_units(specs), None, wd).specs]

\* write_through with the query-keyed write left out
write_through_title_only(file, title, q, synth, t) ==
    _cache_set(file, title, synth, t)

\* api.py:760-768: persist under the title key, then under the query key
write_through(file, title, q, synth, t) ==
    _cache_set_query(_cache_set(file, title, synth, t), q, synth, t)

\* api.py:636-642: a title-cache hit also fills the query key
title_hit_store(file, q, cached, t) == _cache_set_query(file, q, cached, t)

\* no_summary_store caching the miss under the query key
no_summary_store_negative(file, title, q) ==
    _cache_set_query(file, q, Item(title, <<>>, <<>>, NoFields), 0)

\* api.py:646-647: the store after a missing summary
no_summary_store(file, title, q) == file

log_put(w, key, item, t) ==
    [k \in DOMAIN w \cup {key} |-> IF k = key THEN [at |-> t, item |-> item] ELSE w[k]]

LastSet(ns, arg, item, t) == [ns |-> ns, arg |-> arg, item |-> item, at |-> t]
NoSet == LastSet("none", <<>>, Item(<<>>, <<>>, <<>>, NoFields), 0)

\* the end of a call: what it returned, what it fetched, what it stored
Answer(q, status, items, calls, path, title, c2, w2, l2) ==
    /\ resp' = [q |-> q, status |-> status, items |-> items, calls |-> calls,
                path |-> path, title |-> title]
    /\ cache' = c2
    /\ wlog' = w2
    /\ last' = l2

\* api.py:634-769, from the resolved title on
Finish(q, title, calls) ==
    IF title = None
    THEN \* _cache_get(None): None.lower() raises AttributeError, api.py:635, 504
         Answer(q, "raise", <<>>, calls, "raise", title, cache, wlog, last)
    ELSE
      LET cached == _cache_get(cache, title[1], now)
      IN  IF cached # None
          THEN Answer(q, "ok", <<cached[1]>>, calls, "thit", title,
                      title_hit_store(cache, q, cached[1], now),
                      log_put(wlog, query_key(q), cached[1], now),
                      LastSet("query", q, cached[1], now))
          ELSE \E summary \in Summaries(title[1]) :
                 IF summary = None
                 THEN Answer(q, "ok", <<>>, calls \cup {"summary"}, "nosummary",
                             title, no_summary_store(cache, title[1], q), wlog, last)
                 ELSE \E specs \in InfoBoxes, wd \in TitleWdBlocks :
                      \E synth \in {synth_item(title[1], summary[1],
                                                EnrichedSpecsOf[specs, wd])} :
                        LET w1 == log_put(wlog, title_key(title[1]), synth, now)
                            w2 == log_put(w1, query_key(q), synth, now)
                        IN  Answer(q, "ok", <<synth>>,
                                   calls \cup {"summary", "specs", "entity"},
                                   "fetched", title,
                                   write_through(cache, title[1], q, synth, now),
                                   w2, LastSet("query", q, synth, now))

\* api.py:624-633: the scorer's title, else the accepted top hit
resolve_title(q, picked, top) ==
    IF picked # None THEN picked ELSE accept_top(q, top)

\* api.py:547-633: search, score, fall back to the top hit
Resolve(q) ==
    \E candidates \in SearchCandidates(q) :
    \E pages \in FlowPagesFor(q, candidates, cache, now) :
      LET picked == score_and_select(q, candidates, pages, cache, now)
          fetches == IF \E i \in 1..Len(candidates) :
                            is_fetched(q, candidates[i], cache, now)
                     THEN {"specs", "entity"} ELSE {}
      IN  IF picked # None
          THEN Finish(q, resolve_title(q, picked, None), {"search"} \cup fetches)
          ELSE \E top \in SearchTopHits(q) :
                 Finish(q, resolve_title(q, picked, top),
                        {"search", "top"} \cup fetches)

\* get_cars with the query-cache check of api.py:542-545 left out
get_cars_no_query_cache(q) ==
    LET items == catalog
        matches == local_matches(items, q)
    IN  IF q = <<>>
        THEN Answer(q, "ok", items, {}, "all", None, cache, wlog, last)
        ELSE IF matches # <<>>
        THEN Answer(q, "ok", matches, {}, "local", None, cache, wlog, last)
        ELSE Resolve(q)

\* get_cars looking in the query cache before the catalog
get_cars_cache_first(q) ==
    LET items == catalog
        matches == local_matches(items, q)
        qcached == _cache_get_query(cache, q, now)
    IN  IF q = <<>>
        THEN Answer(q, "ok", items, {}, "all", None, cache, wlog, last)
        ELSE IF qcached # None
        THEN Answer(q, "ok", <<qcached[1]>>, {}, "qhit", None, cache, wlog, last)
        ELSE IF matches # <<>>
        THEN Answer(q, "ok", matches, {}, "local", None, cache, wlog, last)
        ELSE Resolve(q)

\* api.py:531-545, then the Wikipedia fallback
get_cars(q) ==
    LET items == catalog
        matches == local_matches(items, q)
        qcached == _cache_get_query(cache, q, now)
    IN  IF q = <<>>
        THEN Answer(q, "ok", items, {}, "all", None, cache, wlog, last)
        ELSE IF matches # <<>>
        THEN Answer(q, "ok", matches, {}, "local", None, cache, wlog, last)
        ELSE IF qcached # None
        THEN Answer(q, "ok", <<qcached[1]>>, {}, "qhit", None, cache, wlog, last)
        ELSE Resolve(q)

GetCars ==
    /\ nreq < MaxRequests
    /\ \E q \in FlowQueries : get_cars(q)
    /\ nreq' = nreq + 1
    /\ UNCHANGED <<now, catalog, nsets, wr, expect, sc,
                 born, ex, pw, en, lq>>

\* the clock advances between calls
Tick ==
    /\ now < MaxTime
    /\ now' = now + 1
    /\ UNCHANGED <<cache, catalog, resp, wlog, last, nreq, nsets, wr, expect, sc,
                 born, ex, pw, en, lq>>

\* no run of the part in progress
NoRun == [pc |-> "none"]

NoScore == [pc |-> "none", q |-> <<>>, candidates |-> <<>>, pages |-> <<>>,
            picked |-> None, title |-> None]

Init ==
    /\ cache = EmptyStore
    /\ now = 0
    /\ catalog \in Catalogs
    /\ resp = NoResp
    /\ wlog = EmptyStore
    /\ last = NoSet
    /\ nreq = 0
    /\ nsets = 0
    /\ wr = <<>>
    /\ expect = EmptyStore
    /\ sc = NoScore
    /\ born = EmptyStore
    /\ ex = NoRun
    /\ pw = NoRun
    /\ en = NoRun
    /\ lq = NoRun

Next == GetCars \/ Tick

Spec == Init /\ [][Next]_vars

----------------------------------------------------------------------------
(* The candidate scorer on its own: the scoring loop and the top-hit        *)
(* fallback of get_cars (api.py:549-633) applied to a query, a candidate    *)
(* list and a store of title-keyed entries.                                 *)

ScoreQueries == {S_Skyline_R34, S_Skyline, S_Civic}
ScoreTitles == {S_Skyline_R34, S_Skyline_R33, S_Honda_Civic}

ScoreCandLists ==
    {s \in UNION {[1..n -> ScoreTitles] : n \in 0..MaxScoreCands} :
        \A i, j \in 1..Len(s) : i # j => s[i] # s[j]}

\* stores left by earlier calls: some titles hold an item written at time 0
ScoreStores ==
    UNION {
        {[k \in {title_key(t) : t \in S} |->
            LET t == CHOOSE t \in S : title_key(t) = k
            IN  Entry(0, Item(t, <<>>, <<>>, f[t]))] : f \in [S -> InfoBoxes]} :
        S \in {S \in SUBSET ScoreTitles : Cardinality(S) <= MaxCached}}

ScoreCandidates ==
    /\ sc.pc = "start"
    /\ \E pages \in PagesFor(sc.q, sc.candidates, cache, now) :
         sc' = [sc EXCEPT !.pc = "scored",
                          !.pages = pages,
                          !.picked = score_and_select(sc.q, sc.candidates, pages,
                                                      cache, now)]
    /\ UNCHANGED <<cache, now, catalog, resp, wlog, last, nreq, nsets, wr, expect,
                 born, ex, pw, en, lq>>

SettleTitle ==
    /\ sc.pc = "scored"
    /\ IF sc.picked # None
       THEN sc' = [sc EXCEPT !.pc = "resolved",
                             !.title = resolve_title(sc.q, sc.picked, None)]
       ELSE \E top \in {None} \cup {Some(t) : t \in ScoreTitles} :
              sc' = [sc EXCEPT !.pc = "resolved",
                               !.title = resolve_title(sc.q, sc.picked, top)]
    /\ UNCHANGED <<cache, now, catalog, resp, wlog, last, nreq, nsets, wr, expect,
                 born, ex, pw, en, lq>>

InitScore ==
    /\ cache \in ScoreStores
    /\ now \in {0, CACHE_TTL_DAYS + 1}
    /\ catalog = <<>>
    /\ resp = NoResp
    /\ wlog = EmptyStore
    /\ last = NoSet
    /\ nreq = 0
    /\ nsets = 0
    /\ wr = <<>>
    /\ expect = EmptyStore
    /\ \E q \in ScoreQueries, candidates \in ScoreCandLists :
         sc = [pc |-> "start", q |-> q, candidates |-> candidates,
               pages |-> <<>>, picked |-> None, title |-> None]
    /\ born = EmptyStore
    /\ ex = NoRun
    /\ pw = NoRun
    /\ en = NoRun
    /\ lq = NoRun

NextScore == ScoreCandidates \/ SettleTitle

SpecScore == InitScore /\ [][NextScore]_vars

----------------------------------------------------------------------------
(* The enrichment cache on its own: set calls in both namespaces, one at a  *)
(* time, and the clock (api.py:478-523).                                    *)

CacheTitles == {S_Skyline_R34, S_Q_R34}
CacheQueries == {S_Skyline_R34, S_R34_Skyline, S_skyline_r34, S_R34}
CacheItems == {Item(S_Skyline_R34, <<>>, <<>>, b) : b \in InfoBoxes}

CacheSet ==
    /\ nsets < MaxSets
    /\ \E title \in CacheTitles, item \in CacheItems :
         /\ cache' = _cache_set(cache, title, item, now)
         /\ wlog' = log_put(wlog, title_key(title), item, now)
         /\ last' = LastSet("title", title, item, now)
    /\ nsets' = nsets + 1
    /\ UNCHANGED <<now, catalog, resp, nreq, wr, expect, sc,
                 born, ex, pw, en, lq>>

CacheSetQuery ==
    /\ nsets < MaxSets
    /\ \E q \in CacheQueries, item \in CacheItems :
         /\ cache' = _cache_set_query(cache, q, item, now)
         /\ wlog' = log_put(wlog, query_key(q), item, now)
         /\ last' = LastSet("query", q, item, now)
    /\ nsets' = nsets + 1
    /\ UNCHANGED <<now, catalog, resp, nreq, wr, expect, sc,
                 born, ex, pw, en, lq>>

InitCache ==
    /\ cache = EmptyStore
    /\ now = 0
    /\ catalog = <<>>
    /\ resp = NoResp
    /\ wlog = EmptyStore
    /\ last = NoSet
    /\ nreq = 0
    /\ nsets = 0
    /\ wr = <<>>
    /\ expect = EmptyStore
    /\ sc = NoScore
    /\ born = EmptyStore
    /\ ex = NoRun
    /\ pw = NoRun
    /\ en = NoRun
    /\ lq = NoRun

NextCache == CacheSet \/ CacheSetQuery \/ Tick

SpecCache == InitCache /\ [][NextCache]_vars

----------------------------------------------------------------------------
(* Two requests writing the cache at the same time: each set call is a load *)
(* of the whole file, a change of one key of the loaded copy, and a save of *)
(* the whole copy (api.py:495-499 and 519-523 over 450-466).                *)

Writers == 1..2
ConcTitles == {S_Skyline_R34, S_Honda_Civic}
ConcQueries == {S_Skyline_R34, S_Civic}
ConcItems == {Item(S_Skyline_R34, <<>>, <<>>, b) : b \in InfoBoxes}

IdleWriter == [pc |-> "idle", key |-> <<>>, item |-> Item(<<>>, <<>>, <<>>, NoFields),
               local |-> EmptyStore, stale |-> FALSE]

\* cache = _load_cache(); key = ...
LoadStep(w) ==
    /\ wr[w].pc = "idle"
    /\ nsets < MaxSets
    /\ \E key \in {title_key(t) : t \in ConcTitles} \cup {query_key(q) : q \in ConcQueries},
          item \in ConcItems :
         wr' = [wr EXCEPT ![w] = [pc |-> "loaded", key |-> key, item |-> item,
                                  local |-> _load_cache(cache), stale |-> FALSE]]
    /\ nsets' = nsets + 1
    /\ UNCHANGED <<cache, now, catalog, resp, wlog, last, nreq, expect, sc,
                 born, ex, pw, en, lq>>

\* cache[key] = {'ts': time.time(), 'item': item}; _save_cache(cache)
SaveStep(w) ==
    /\ wr[w].pc = "loaded"
    /\ cache' = _save_cache(store_put(wr[w].local, wr[w].key, wr[w].item, now))
    /\ expect' = [k \in DOMAIN expect \cup {wr[w].key} |->
                    IF k = wr[w].key THEN Entry(now, wr[w].item) ELSE expect[k]]
    /\ wr' = [v \in Writers |->
                IF v = w THEN IdleWriter
                ELSE IF wr[v].pc = "loaded" THEN [wr[v] EXCEPT !.stale = TRUE]
                ELSE wr[v]]
    /\ UNCHANGED <<now, catalog, resp, wlog, last, nreq, nsets, sc,
                 born, ex, pw, en, lq>>

InitConc ==
    /\ cache = EmptyStore
    /\ now = 0
    /\ catalog = <<>>
    /\ resp = NoResp
    /\ wlog = EmptyStore
    /\ last = NoSet
    /\ nreq = 0
    /\ nsets = 0
    /\ wr = [w \in Writers |-> IdleWriter]
    /\ expect = EmptyStore
    /\ sc = NoScore
    /\ born = EmptyStore
    /\ ex = NoRun
    /\ pw = NoRun
    /\ en = NoRun
    /\ lq = NoRun

NextConc == \E w \in Writers : LoadStep(w) \/ SaveStep(w)

SpecConc == InitConc /\ [][NextConc]_vars

----------------------------------------------------------------------------
(* wikidata_extract_quantity_claims on its own: the loop over the claims of *)
(* one entity, the unit labels fetched on the way (api.py:160-206).         *)

\* the claims of the entities of the model, by property
ExtractProps == {"P1112", "P2067"}
ExtractClaims ==
    {QuantityClaim("P1112", Some(a), Some(u)) :
        a \in {S_plus_150, S_abc}, u \in {S_unit_Q1, S_unit_Q1_slash, S_unit_Q2}}
    \cup {QuantityClaim("P2067", Some(S_plus_plus_5), None),
          QuantityClaim("P2067", None, Some(S_unit_one)),
          NoValueClaim("P1112"),
          EntityIdClaim("P2067", <<"Q","9">>)}

\* entity['claims'] in iteration order: the claims of one property follow
\* each other
ClaimLists ==
    {s \in UNION {[1..n -> ExtractClaims] : n \in 0..MaxClaims} :
        \A i, j, k \in 1..Len(s) :
            (i < j /\ j < k /\ s[i].prop = s[k].prop) => s[j].prop = s[i].prop}

\* one pass of the loop of api.py:188-205: the next claim of the entity
ExtractClaim ==
    /\ ex.pc = "run"
    /\ ex.i <= Len(ex.claims)
    /\ LET c == ex.claims[ex.i]
       IN  \E ent \in IF c.type = "quantity" /\ unit_is_fetched(c.unit, ex.st.unit_cache)
                      THEN UnitResponses ELSE {None} :
             ex' = [ex EXCEPT !.st = extract_claim(ex.st, c, ent), !.i = ex.i + 1]
    /\ UNCHANGED <<flowvars, pw, en, lq>>

\* return out, api.py:206
ExtractReturn ==
    /\ ex.pc = "run"
    /\ ex.i > Len(ex.claims)
    /\ ex' = [ex EXCEPT !.pc = "done"]
    /\ UNCHANGED <<flowvars, pw, en, lq>>

InitFlowIdle ==
    /\ cache = EmptyStore
    /\ now = 0
    /\ catalog = <<>>
    /\ resp = NoResp
    /\ wlog = EmptyStore
    /\ last = NoSet
    /\ nreq = 0
    /\ nsets = 0
    /\ wr = <<>>
    /\ expect = EmptyStore
    /\ sc = NoScore
    /\ born = EmptyStore

InitExtract ==
    /\ InitFlowIdle
    /\ \E claims \in ClaimLists :
         ex = [pc |-> "run", claims |-> claims, i |-> 1,
               st |-> ExtractState(EmptyStore, EmptyStore, <<>>)]
    /\ pw = NoRun
    /\ en = NoRun
    /\ lq = NoRun

NextExtract == ExtractClaim \/ ExtractReturn

SpecExtract == InitExtract /\ [][NextExtract]_vars

----------------------------------------------------------------------------
(* _parse_weight on its own, applied to weight texts built from one or more *)
(* measurements (api.py:328-367).                                           *)

\* the numbers written in the texts, with the value each one stands for
\* (None: not a number)
WrittenNumber(text, value) == [text |-> text, value |-> value]
N_1931 == WrittenNumber(<<"1",",","9","3","1">>, Some(1931000))
N_2055 == WrittenNumber(<<"2",",","0","5","5">>, Some(2055000))
N_900_26 == WrittenNumber(<<"9","0","0",".","2","6">>, Some(900260))
N_1_2_3 == WrittenNumber(<<"1",".","2",".","3">>, None)

\* one measurement of the text: a number or a range of two, and a unit
Measurements ==
    [lo : {None, Some(N_1931)},
     hi : {N_2055, N_900_26, N_1_2_3},
     unit : {<<" ","k","g">>, <<"K","G">>, <<" ","l","b">>}]

render_part(p) ==
    (IF p.lo = None THEN <<>> ELSE p.lo[1].text \o <<NDASH>>) \o p.hi.text \o p.unit

\* the text of an infobox weight cell: the measurements, separated by "; "
RECURSIVE render(_)
render(parts) ==
    IF parts = <<>> THEN <<>>
    ELSE IF Len(parts) = 1 THEN render_part(parts[1])
    ELSE render_part(parts[1]) \o <<";"," ">> \o render(Tail(parts))

WeightParts == UNION {[1..n -> Measurements] : n \in 0..MaxParts}

\* out = _parse_weight(text)
ParseWeight ==
    /\ pw.pc = "start"
    /\ pw' = [pw EXCEPT !.pc = "done", !.out = _parse_weight(pw.text)]
    /\ UNCHANGED <<flowvars, ex, en, lq>>

InitParse ==
    /\ InitFlowIdle
    /\ ex = NoRun
    /\ \E parts \in WeightParts :
         pw = [pc |-> "start", parts |-> parts, text |-> render(parts),
               out |-> None]
    /\ en = NoRun
    /\ lq = NoRun

NextParse == ParseWeight

SpecParse == InitParse /\ [][NextParse]_vars

----------------------------------------------------------------------------
(* The last stage of the search flow on its own (api.py:645-769): the raw   *)
(* infobox of the resolved title is unit-parsed, the structured quantities  *)
(* are merged in, the item is built, persisted and returned.                *)

S_110_kW == <<"1","1","0"," ","k","W">>
S_1_2_3_kW == <<"1",".","2",".","3"," ","k","W">>
S_900_kg == <<"9","0","0"," ","k","g">>
S_2568_cc == <<"2",",","5","6","8"," ","c","c">>
S_353_Nm == <<"3","5","3"," ","N","m">>
S_1_2_3_Nm == <<"1",".","2",".","3"," ","N","m">>

\* the texts an infobox may hold under each raw field; None: field absent
RawTexts ==
    [power |-> {None, Some(S_110_kW), Some(S_1_2_3_kW)},
     weight |-> {None, Some(S_900_kg)},
     displacement |-> {None, Some(S_2568_cc)},
     torque |-> {None, Some(S_353_Nm), Some(S_1_2_3_Nm)}]

RawPicks ==
    {pick \in [DOMAIN RawTexts -> UNION {RawTexts[f] : f \in DOMAIN RawTexts}] :
        \A f \in DOMAIN RawTexts : pick[f] \in RawTexts[f]}

\* the infoboxes wiki_fetch_specs may return for the resolved title
EnrichInfoBoxes ==
    {[k \in {f \in DOMAIN RawTexts : pick[f] # None} |-> pick[k][1]] :
        pick \in RawPicks}

\* the P1112 records wikidata_extract_quantity_claims may have produced:
\* amounts None (unparsable), 0, 110 and 150000
PowerAmounts == {None, Some(0), Some(110000), Some(150000000)}
PowerLabels == {None, Some(S_watt), Some(S_kilowatt), Some(S_horsepower),
                Some(S_hp), Some(S_newton)}
PowerRecords ==
    {QuantityRecord(a, l, Some(S_unit_Q1)) : a \in PowerAmounts, l \in PowerLabels}
SecondRecord == QuantityRecord(Some(200000), Some(S_hp), Some(S_unit_Q2))
PowerClaims ==
    {<<r>> : r \in PowerRecords} \cup {<<r, SecondRecord>> : r \in PowerRecords}
MassClaims == <<QuantityRecord(Some(1500000), Some(S_kilogram), Some(S_unit_Q2))>>

\* the quantities of the entity: P1112 or not, P2067 or not
EnrichQuantities ==
    LET power == {NoFields} \cup {"P1112" :> c : c \in PowerClaims}
    IN  power \cup {("P2067" :> MassClaims) @@ qs : qs \in power}

\* what wikidata_fetch_claims_for_title may return for the resolved title
EnrichWdBlocks ==
    {None} \cup {Some(WdBlock(qs, NoFields)) : qs \in EnrichQuantities}

\* api.py:650-670: the unit parsers update specs
EnrichParse ==
    /\ en.pc = "specs"
    /\ en' = [en EXCEPT !.pc = "parsed", !.specs = parse_units(en.specs)]
    /\ UNCHANGED <<flowvars, ex, pw, lq>>

\* api.py:672-742: the structured quantities are merged into specs; synth is
\* not bound yet
EnrichMerge ==
    /\ en.pc = "parsed"
    /\ LET mg == merge_wikidata(en.specs, en.synth, en.wd)
       IN  en' = [en EXCEPT !.pc = "merged", !.specs = mg.specs, !.synth = mg.synth]
    /\ UNCHANGED <<flowvars, ex, pw, lq>>

\* api.py:744-769: synth is bound to the new item, persisted under both keys
\* and returned
EnrichPersist ==
    /\ en.pc = "merged"
    /\ \E synth \in {synth_item(en.title, en.summary, en.specs)} :
         /\ en' = [en EXCEPT !.pc = "done", !.synth = Some(synth),
                              !.out = Some(<<synth>>)]
         /\ cache' = write_through(cache, en.title, en.q, synth, now)
    /\ UNCHANGED <<now, catalog, resp, wlog, last, nreq, nsets, wr, expect, sc,
                   born, ex, pw, lq>>

InitEnrich ==
    /\ InitFlowIdle
    /\ ex = NoRun
    /\ pw = NoRun
    /\ \E raw \in EnrichInfoBoxes, wd \in EnrichWdBlocks :
         en = [pc |-> "specs", q |-> S_skyline_r34, title |-> S_Skyline_R34,
               summary |-> [title |-> S_Skyline_R34], raw |-> raw, wd |-> wd,
               specs |-> raw, synth |-> None, out |-> None]
    /\ lq = NoRun

NextEnrich == EnrichParse \/ EnrichMerge \/ EnrichPersist

SpecEnrich == InitEnrich /\ [][NextEnrich]_vars

----------------------------------------------------------------------------
(* The search flow with the age of the cached items: born maps each key of  *)
(* the store to the time at which the item held under it was assembled from *)
(* the network. The pages of these runs have no infobox and no structured   *)
(* claims.                                                                   *)

\* the bookkeeping of one call: an assembled item is born now under both of
\* its keys (api.py:760-768), a title-cache hit copies the item and its birth
\* to the query key (api.py:636-642)
born_after(b, r, t) ==
    IF r.path = "fetched"
    THEN (title_key(r.title[1]) :> t) @@ (query_key(r.q) :> t) @@ b
    ELSE IF r.path = "thit"
    THEN (query_key(r.q) :> b[title_key(r.title[1])]) @@ b
    ELSE b

FreshCall ==
    /\ nreq < MaxFreshRequests
    /\ \E q \in FreshQueries : get_cars(q)
    /\ resp'.path = "fetched" => resp'.items[1].specs = NoFields
    /\ born' = born_after(born, resp', now)
    /\ nreq' = nreq + 1
    /\ UNCHANGED <<now, catalog, nsets, wr, expect, sc, ex, pw, en, lq>>

FreshTick ==
    /\ now < MaxFreshTime
    /\ now' = now + 1
    /\ UNCHANGED <<cache, catalog, resp, wlog, last, nreq, nsets, wr, expect, sc,
                   born, ex, pw, en, lq>>

InitFresh ==
    /\ InitFlowIdle
    /\ ex = NoRun
    /\ pw = NoRun
    /\ en = NoRun
    /\ lq = NoRun

NextFresh == FreshCall \/ FreshTick

SpecFresh == InitFresh /\ [][NextFresh]_vars

----------------------------------------------------------------------------
(* The outbound entity fetches of one resolution (api.py:549-622 and 674    *)
(* over 121-157 and 209-289): the candidate loop calls                      *)
(* wikidata_fetch_claims_for_title twice per scored candidate, the last     *)
(* stage once more for the resolved title. What an entity holds is whatever *)
(* the knowledge graph answers when it is fetched; an answer may name the   *)
(* entity itself or an entity fetched before.                               *)

\* the entities of the knowledge graph: Q1, Q2, Q3
Qids == {1, 2, 3}

NoQid == 0

\* what wbgetentities answers for a title: its entity, or nothing. The
\* entities differ by what is fetched for them only, so the entity of every
\* title is taken to be Q1.
TitleQids == {NoQid, 1}

\* what wbgetentities returns for an entity: the targets of its
\* wikibase-entityid claims under P31 and under the other properties, and the
\* number of distinct unit entities its quantity claims name
Entities ==
    [links : {s \in SUBSET Qids : Cardinality(s) <= MaxLinks},
     p31 : {s \in SUBSET Qids : Cardinality(s) <= MaxP31},
     units : 0..MaxUnits]

\* wikidata_get_entity: the entity, or None on an error or a timeout
EntityResponses == {None} \cup {Some(e) : e \in Entities}

\* api.py:209-228: every wikibase-entityid claim, P31 included
wikidata_extract_linked_entity_qids(entity) == entity.links \cup entity.p31

\* a variant of the loop of api.py:239 that also queues the entities the
\* fetched entity links to
linked_after_following(qids, q, ent) ==
    IF ent = None THEN qids \ {q}
    ELSE (qids \ {q}) \cup wikidata_extract_linked_entity_qids(ent[1])

\* api.py:239: for q in qids, over the links of the title's entity only
linked_after(qids, q, ent) == qids \ {q}

\* a call of wikidata_fetch_claims_for_title by get_cars
start_pass(st, pass) ==
    [st EXCEPT !.pc = "title", !.pass = pass, !.passes = st.passes + 1,
               !.calls = 0, !.root = NoQid, !.linked = {}, !.qids = {},
               !.fetched = {}, !.labelled = FALSE, !.cyc = FALSE,
               !.p31s = {}, !.units = 0, !.ctx = "root"]

\* the locals of a call of wikidata_fetch_claims_for_title, gone on return
no_pass(st, pc) ==
    [start_pass(st, "none") EXCEPT !.pc = pc, !.passes = st.passes]

\* its return: api.py:588 is followed by 604, 604 by the next candidate,
\* 674 by the rest of the last stage, which fetches no entity; the record of
\* the last call of a resolution is kept
end_pass(st) ==
    IF st.pass = "wd" THEN start_pass(st, "desc")
    ELSE IF st.pass = "desc" THEN no_pass(st, "loop")
    ELSE [st EXCEPT !.pc = "done"]

\* api.py:557-588: the next candidate; it is skipped (568-569), scored from
\* the cache (571-581) or scored from the network
VisitCandidate ==
    /\ lq.pc = "loop"
    /\ lq.i < lq.n
    /\ \E fetch \in BOOLEAN :
         LET st == [lq EXCEPT !.i = lq.i + 1]
         IN  lq' = IF fetch THEN start_pass(st, "wd") ELSE st
    /\ UNCHANGED <<flowvars, ex, pw, en>>

\* api.py:622-674: after the last candidate the title is settled; the last
\* stage is reached when a title was found, is not cached and has a summary
LoopExit ==
    /\ lq.pc = "loop"
    /\ lq.i = lq.n
    /\ \E enrich \in BOOLEAN :
         lq' = IF enrich THEN start_pass(lq, "merge") ELSE no_pass(lq, "done")
    /\ UNCHANGED <<flowvars, ex, pw, en>>

\* api.py:279-281 over 121-140
EntityForTitle ==
    /\ lq.pc = "title"
    /\ \E qid \in TitleQids :
         LET st == [lq EXCEPT !.calls = lq.calls + 1]
         IN  lq' = IF qid = NoQid THEN end_pass(st)
                   ELSE [st EXCEPT !.pc = "entity", !.root = qid]
    /\ UNCHANGED <<flowvars, ex, pw, en>>

\* api.py:282-286: the entity of the title; its quantity claims are read
\* first (285), its linked entities after (286, 236)
GetEntity ==
    /\ lq.pc = "entity"
    /\ \E r \in EntityResponses :
         LET st == [lq EXCEPT !.calls = lq.calls + 1]
         IN  lq' = IF r = None THEN end_pass(st)
                   ELSE [st EXCEPT
                           !.pc = "units", !.ctx = "root",
                           !.units = r[1].units,
                           !.linked = wikidata_extract_linked_entity_qids(r[1]),
                           !.qids = wikidata_extract_linked_entity_qids(r[1])]
    /\ UNCHANGED <<flowvars, ex, pw, en>>

\* api.py:204 over 160-178: the label of one unit entity
ResolveUnit ==
    /\ lq.pc = "units"
    /\ lq.units > 0
    /\ lq' = [lq EXCEPT !.calls = lq.calls + 1, !.units = lq.units - 1]
    /\ UNCHANGED <<flowvars, ex, pw, en>>

\* api.py:206, then 286 for the title's entity and 262-270 for a linked one
UnitsDone ==
    /\ lq.pc = "units"
    /\ lq.units = 0
    /\ lq' = [lq EXCEPT !.pc = "linked"]
    /\ UNCHANGED <<flowvars, ex, pw, en>>

\* api.py:239-247: the next linked entity, in the iteration order of a set
FetchLinked ==
    /\ lq.pc = "linked"
    /\ lq.qids # {}
    /\ \E q \in lq.qids, r \in EntityResponses :
         LET st == [lq EXCEPT !.calls = lq.calls + 1,
                              !.fetched = lq.fetched \cup {q},
                              !.qids = linked_after(lq.qids, q, r)]
         IN  lq' = IF r = None THEN st
                   ELSE [st EXCEPT
                           !.pc = "p31", !.ctx = "linked",
                           !.p31s = r[1].p31, !.units = r[1].units,
                           !.cyc = lq.cyc \/
                               ({q, lq.root} \cap
                                  wikidata_extract_linked_entity_qids(r[1])
                                # {})]
    /\ UNCHANGED <<flowvars, ex, pw, en>>

\* api.py:249-259: the label of one instance-of target
FetchP31Label ==
    /\ lq.pc = "p31"
    /\ lq.p31s # {}
    /\ \E pid \in lq.p31s :
         lq' = [lq EXCEPT !.calls = lq.calls + 1,
                          !.p31s = lq.p31s \ {pid},
                          !.labelled = TRUE]
    /\ UNCHANGED <<flowvars, ex, pw, en>>

\* api.py:260-261: the quantity claims of the linked entity
P31Done ==
    /\ lq.pc = "p31"
    /\ lq.p31s = {}
    /\ lq' = [lq EXCEPT !.pc = "units"]
    /\ UNCHANGED <<flowvars, ex, pw, en>>

\* api.py:273 and 287
LinkedReturn ==
    /\ lq.pc = "linked"
    /\ lq.qids = {}
    /\ lq' = end_pass(lq)
    /\ UNCHANGED <<flowvars, ex, pw, en>>

\* api.py:549: wiki_search_candidates(q, limit=8) has answered
InitLinked ==
    /\ InitFlowIdle
    /\ ex = NoRun
    /\ pw = NoRun
    /\ en = NoRun
    /\ \E n \in 0..(IF MaxLoopCands < SearchLimit THEN MaxLoopCands ELSE SearchLimit) :
         lq = [pc |-> "loop", n |-> n, i |-> 0, passes |-> 0,
               pass |-> "none", calls |-> 0, root |-> NoQid, linked |-> {},
               qids |-> {}, fetched |-> {}, labelled |-> FALSE,
               cyc |-> FALSE, p31s |-> {}, units |-> 0, ctx |-> "root"]

NextLinked ==
    \/ VisitCandidate \/ LoopExit \/ EntityForTitle \/ GetEntity
    \/ ResolveUnit \/ UnitsDone \/ FetchLinked \/ FetchP31Label \/ P31Done
    \/ LinkedReturn

\* every outbound call returns or times out (timeout=10 on each request), so
\* the request handler always takes its next step
SpecLinked == InitLinked /\ [][NextLinked]_vars /\ WF_vars(NextLinked)

----------------------------------------------------------------------------
(* Properties of the search flow, under Spec *)

\* a step that is one get_cars call
IsCall == nreq' = nreq + 1

\* the store holds a valid (non-expired) entry under the query key of q
ValidQueryEntry(file, q, t) ==
    /\ query_key(q) \in DOMAIN file
    /\ t - file[query_key(q)].ts <= CACHE_TTL_DAYS

\* C1 as stated: whenever the store holds a valid entry under the query key
\* of the query, get_cars returns exactly that item and makes no outbound call.
C1_HitAlwaysServed ==
    [][(IsCall /\ ValidQueryEntry(cache, resp'.q, now)) =>
          /\ resp'.status = "ok"
          /\ resp'.items = <<cache[query_key(resp'.q)].item>>
          /\ resp'.calls = {}]_vars

\* C1 amended: when the query is not empty and matches no catalog item, and
\* the store holds a valid entry under its query key, get_cars returns exactly
\* that item and makes no outbound call.
C1_QueryCacheHit ==
    [][(/\ IsCall
        /\ resp'.q # <<>>
        /\ local_matches(catalog, resp'.q) = <<>>
        /\ ValidQueryEntry(cache, resp'.q, now)) =>
          /\ resp'.status = "ok"
          /\ resp'.items = <<cache[query_key(resp'.q)].item>>
          /\ resp'.calls = {}]_vars

\* a call was answered from the query cache, after the clock moved on
C1_Witness ==
    /\ resp.path = "qhit"
    /\ resp.calls = {}
    /\ resp.items = <<cache[query_key(resp.q)].item>>
    /\ now > cache[query_key(resp.q)].ts

\* C4: a call that gets past the catalog and the query cache and resolves no
\* title (no overlapping candidate, no acceptable top hit) returns an empty
\* sequence and does not raise.
C4_NoMatchReturnsEmpty ==
    (resp.path \notin {"none", "all", "local", "qhit"} /\ resp.title = None) =>
        (resp.status = "ok" /\ resp.items = <<>>)

\* C5: a call that assembles an item from the network leaves that item in the
\* store under the title key and under the query key, stamped with the time of
\* the call; the next call, for the same query within the TTL, is answered
\* with that item from the query cache.
C5_WriteThrough ==
    [][IsCall =>
        /\ resp'.path = "fetched" =>
             LET it == resp'.items[1]
                 tk == title_key(resp'.title[1])
                 qk == query_key(resp'.q)
             IN  /\ tk \in DOMAIN cache' /\ cache'[tk] = Entry(now, it)
                 /\ qk \in DOMAIN cache' /\ cache'[qk] = Entry(now, it)
        /\ (/\ resp.path = "fetched"
            /\ resp'.q = resp.q
            /\ now - last.at <= CACHE_TTL_DAYS) =>
             /\ resp'.path = "qhit"
             /\ resp'.items = resp.items
             /\ resp'.calls = {}]_vars

\* the repeat of a query was served the item its first call wrote through
C5_Witness ==
    /\ resp.path = "qhit"
    /\ last = LastSet("query", resp.q, resp.items[1], last.at)
    /\ now > last.at
    /\ resp.items[1].name \in Titles
    /\ title_key(resp.items[1].name) \in DOMAIN cache
    /\ cache[title_key(resp.items[1].name)].item = resp.items[1]

\* C10: a call that selects a title with no valid title-cache entry and gets
\* no summary for it returns an empty result and leaves the store as it was.
C10_NoSummaryNoWrite ==
    [][(IsCall /\ resp'.path = "nosummary") =>
          /\ resp'.title # None
          /\ _cache_get(cache, resp'.title[1], now) = None
          /\ resp'.status = "ok"
          /\ resp'.items = <<>>
          /\ cache' = cache]_vars

\* a call ended on a missing summary while the store already held entries
C10_Witness ==
    /\ resp.path = "nosummary"
    /\ resp.title # None
    /\ "summary" \in resp.calls
    /\ DOMAIN cache # {}

\* the catalog holds an item whose name, manufacturer and year text contains
\* the lowercased query
CatalogMatches(q) ==
    \E i \in 1..Len(catalog) :
        contains(lower(catalog[i].name \o <<" ">> \o catalog[i].manufacturer
                          \o <<" ">> \o catalog[i].year),
                 lower(q))

\* C19: a call whose query is empty or matches a catalog item returns catalog
\* items only (the whole catalog, or the matching items), makes no outbound
\* call and leaves the cache store unchanged, whatever the store holds under
\* the key of the query.
C19_LocalCatalogPrecedence ==
    [][(IsCall /\ (resp'.q = <<>> \/ CatalogMatches(resp'.q))) =>
          /\ resp'.status = "ok"
          /\ resp'.items = IF resp'.q = <<>> THEN catalog
                           ELSE SelectSeq(catalog,
                                    LAMBDA i : contains(match_text(i), lower(resp'.q)))
          /\ resp'.items # <<>> => \A n \in 1..Len(resp'.items) :
                                     resp'.items[n] \in Range(catalog)
          /\ resp'.calls = {}
          /\ cache' = cache]_vars

\* a call was answered from the catalog while the store held a valid entry
\* under the key of its query
C19_Witness ==
    /\ resp.path = "local"
    /\ resp.items = <<CivicItem>>
    /\ resp.calls = {}
    /\ ValidQueryEntry(cache, resp.q, now)

\* C18: every item a call returns from the cache, by a query-key hit or a
\* title-key hit, was assembled from the network at most 2 * TTL before the
\* call (checked under SpecFresh).
C18_FreshnessBound ==
    [][(nreq' = nreq + 1) =>
          /\ resp'.path = "qhit" =>
                now - born[query_key(resp'.q)] <= 2 * CACHE_TTL_DAYS
          /\ resp'.path = "thit" =>
                now - born[title_key(resp'.title[1])] <= 2 * CACHE_TTL_DAYS]_vars

----------------------------------------------------------------------------
(* Properties of the enrichment cache, under SpecCache *)

\* what a getter must return for a key, given the last set call on that key
TTLContract(key, got) ==
    IF key \in DOMAIN wlog
    THEN /\ now < wlog[key].at + CACHE_TTL_DAYS => got = Some(wlog[key].item)
         /\ now > wlog[key].at + CACHE_TTL_DAYS => got = None
    ELSE got = None

\* C2: in both namespaces, an entry set at time T is returned unchanged at
\* every time strictly before T + TTL and is absent at every time strictly
\* after T + TTL; a key that was never set is absent.
C2_CacheTTL ==
    /\ \A title \in CacheTitles :
         TTLContract(title_key(title), _cache_get(cache, title, now))
    /\ \A q \in CacheQueries :
         TTLContract(query_key(q), _cache_get_query(cache, q, now))

\* one entry has outlived the TTL and is absent, another is inside it and is
\* returned as written
C2_Witness ==
    \E q \in CacheQueries, title \in CacheTitles :
        /\ query_key(q) \in DOMAIN wlog
        /\ now > wlog[query_key(q)].at + CACHE_TTL_DAYS
        /\ _cache_get_query(cache, q, now) = None
        /\ title_key(title) \in DOMAIN wlog
        /\ now > wlog[title_key(title)].at
        /\ now < wlog[title_key(title)].at + CACHE_TTL_DAYS
        /\ _cache_get(cache, title, now) = Some(wlog[title_key(title)].item)

\* the number of times tok occurs in the token list toks
Occurrences(toks, tok) == Cardinality({i \in 1..Len(toks) : toks[i] = tok})

\* q1 and q2 have the same multiset of normalized tokens
SameTokenBag(q1, q2) ==
    \A tok \in Range(word_tokens(q1)) \cup Range(word_tokens(q2)) :
        Occurrences(word_tokens(q1), tok) = Occurrences(word_tokens(q2), tok)

\* q1 and q2 have the same normalized tokens in the same order
SameTokenList(q1, q2) == word_tokens(q1) = word_tokens(q2)

\* C9 as stated: an item just set under a query is returned, within the TTL,
\* by the lookup for every query with the same multiset of normalized tokens,
\* whatever the order of the tokens.
C9_SameBagSameEntry ==
    \A q2 \in CacheQueries :
        (/\ last.ns = "query"
         /\ SameTokenBag(last.arg, q2)
         /\ now - last.at <= CACHE_TTL_DAYS) =>
            _cache_get_query(cache, q2, now) = Some(last.item)

\* C9 amended: an item just set under a query is returned, within the TTL, by
\* the lookup for every query with the same normalized tokens in the same
\* order.
C9_SameListSameEntry ==
    \A q2 \in CacheQueries :
        (/\ last.ns = "query"
         /\ SameTokenList(last.arg, q2)
         /\ now - last.at <= CACHE_TTL_DAYS) =>
            _cache_get_query(cache, q2, now) = Some(last.item)

\* a lookup for a query spelled differently from the one the item was set
\* under, with the same token list, returns the item
C9_Witness ==
    \E q2 \in CacheQueries :
        /\ last.ns = "query"
        /\ q2 # last.arg
        /\ lower(q2) # lower(last.arg)
        /\ SameTokenList(last.arg, q2)
        /\ now > last.at
        /\ _cache_get_query(cache, q2, now) = Some(last.item)

\* C20: the two key namespaces are disjoint: a set call under a title changes
\* the result of no query lookup (it neither overwrites a query-keyed entry
\* nor is served as one), and a set call under a query changes the result of
\* no title lookup.
C20_NamespacesDisjoint ==
    [][/\ (nsets' # nsets /\ last'.ns = "title") =>
            \A q \in CacheQueries :
               _cache_get_query(cache', q, now) = _cache_get_query(cache, q, now)
       /\ (nsets' # nsets /\ last'.ns = "query") =>
            \A title \in CacheTitles :
               _cache_get(cache', title, now) = _cache_get(cache, title, now)]_vars

----------------------------------------------------------------------------
(* Properties of the candidate scorer, under SpecScore *)

\* the candidates of the run that share a token with the query
Overlapping ==
    {i \in 1..Len(sc.candidates) :
        Range(word_tokens(sc.q)) \cap Range(word_tokens(sc.candidates[i])) # {}}

\* the score the loop gave candidate i of the run
ScoreAt(i) == cand_score(sc.q, sc.candidates[i], sc.pages[i], cache, now)[1]

\* C3: the title resolved by the scoring loop or by the top-hit fallback
\* shares at least one lowercased word token with the query.
C3_ResolvedTitleOverlaps ==
    (sc.pc = "resolved" /\ sc.title # None) =>
        Range(word_tokens(sc.q)) \cap Range(word_tokens(sc.title[1])) # {}

\* a title was picked by scoring while a candidate without overlap, holding a
\* valid title-cache entry with specs, stood in the list before it
C3_Witness ==
    /\ sc.pc = "resolved"
    /\ sc.picked # None
    /\ sc.title = sc.picked
    /\ \E i, j \in 1..Len(sc.candidates) :
         /\ i < j
         /\ i \notin Overlapping
         /\ _cache_get(cache, sc.candidates[i], now) # None
         /\ _cache_get(cache, sc.candidates[i], now)[1].specs # NoFields
         /\ sc.candidates[j] = sc.title[1]
         /\ sc.pages[j].specs = NoFields

\* C6: the scoring loop returns the earliest candidate whose score is the
\* maximum over the candidates that overlap the query, and returns absent
\* only when no candidate overlaps the query.
C6_PickedIsFirstMaximum ==
    sc.pc \in {"scored", "resolved"} =>
        IF Overlapping = {}
        THEN sc.picked = None
        ELSE \E i \in Overlapping :
               /\ sc.picked = Some(sc.candidates[i])
               /\ \A j \in Overlapping : ScoreAt(j) <= ScoreAt(i)
               /\ \A j \in Overlapping : j < i => ScoreAt(j) < ScoreAt(i)

\* two overlapping candidates tie on the maximum score and the earlier one
\* is picked
C6_Witness ==
    /\ sc.pc = "scored"
    /\ \E i, j \in Overlapping :
         /\ i < j
         /\ ScoreAt(i) = ScoreAt(j)
         /\ sc.picked = Some(sc.candidates[i])

\* the model bonus as C7 states it
ExactTokenBonus(q, cand) ==
    LET qt == word_tokens(q)
        ct == word_tokens(cand)
    IN  IF \E i \in 1..Len(qt) : has_digit(qt[i]) /\ qt[i] \in Range(ct)
        THEN 6
        ELSE IF \E i \in 1..Len(ct) : has_digit(ct[i]) THEN 1 ELSE 0

\* C7: the model bonus of a candidate is 6 only when a digit-bearing token of
\* the query is in the candidate's token set, otherwise 1 if some candidate
\* token has a digit and 0 if none has; so for the query "Skyline R34" the
\* candidate "Skyline R33" has model bonus 1.
C7_ModelBonusExactToken ==
    sc.pc # "start" =>
      \A i \in 1..Len(sc.candidates) :
        model_bonus(sc.q, sc.candidates[i]) = ExactTokenBonus(sc.q, sc.candidates[i])

\* the description of the entity of candidate i holds a block-list keyword
BlockListed(i) ==
    \E bk \in bad_keywords : contains(lower(sc.pages[i].description), bk)

\* C14: a candidate that is not served from the title cache, overlaps the
\* query and whose entity description holds a block-list keyword gets the
\* score richness*8 + wd_richness*12 + token_score*4 + model_bonus*5 - 50.
C14_PenaltyApplied ==
    sc.pc # "start" =>
      \A i \in Overlapping :
        (is_fetched(sc.q, sc.candidates[i], cache, now) /\ BlockListed(i)) =>
          ScoreAt(i) = Cardinality(DOMAIN sc.pages[i].specs) * 8
                         + wd_richness(sc.pages[i].wd) * 12
                         + token_score(sc.q, sc.candidates[i]) * 4
                         + model_bonus(sc.q, sc.candidates[i]) * 5
                         - 50

----------------------------------------------------------------------------
(* Properties of concurrent cache writers, under SpecConc *)

\* C8: a set call that no other writer's save falls into changes its own key
\* and leaves every other entry of the persisted store unchanged; when two
\* set calls overlap, the store can end up without one of the two updates
\* (C8_LostUpdate is reachable).
C8_SoloSetFrame ==
    [][\A w \in Writers :
         (wr[w].pc = "loaded" /\ wr'[w].pc = "idle" /\ ~wr[w].stale) =>
            /\ DOMAIN cache' = DOMAIN cache \cup {wr[w].key}
            /\ cache'[wr[w].key] = Entry(now, wr[w].item)
            /\ \A k \in DOMAIN cache \ {wr[w].key} : cache'[k] = cache[k]]_vars

\* both writers have finished their set calls on different keys, one of them
\* alone and one overlapped, and the persisted store lacks an update
C8_LostUpdate ==
    /\ \A w \in Writers : wr[w].pc = "idle"
    /\ \E k \in DOMAIN expect : k \notin DOMAIN cache
    /\ DOMAIN cache # {}

----------------------------------------------------------------------------
(* Properties of wikidata_extract_quantity_claims, under SpecExtract *)

\* the records the call has put under property p so far
RecordsOf(p) == IF p \in DOMAIN ex.st.out THEN ex.st.out[p] ELSE <<>>

\* all the records of the output, in one set
AllRecords == UNION {Range(RecordsOf(p)) : p \in ExtractProps}

\* the quantity claims of property p whose amount is a number
NumericClaims(p) ==
    {i \in 1..Len(ex.claims) :
        /\ ex.claims[i].prop = p
        /\ ex.claims[i].type = "quantity"
        /\ parse_amount(ex.claims[i].amount) # None}

\* C11: when the call returns, a quantity claim whose amount is not a number
\* (even after stripping leading '+') has added no record: every record of
\* the output has a numeric amount, and each property holds one record per
\* claim with a numeric amount.
C11_MalformedAmountsSkipped ==
    ex.pc = "done" =>
        /\ \A r \in AllRecords : r.amount # None
        /\ \A p \in ExtractProps : Len(RecordsOf(p)) = Cardinality(NumericClaims(p))

\* the entity a unit URL names, as _resolve_unit_label derives it
unit_entity(raw_unit) == after_last(rstrip(raw_unit[1], "/"), "/")

----------------------------------------------------------------------------
(* Properties of _parse_weight, under SpecParse *)

\* the numbers the text gives in kilograms
KgNumbers ==
    UNION {(IF pw.parts[i].lo = None THEN {} ELSE {pw.parts[i].lo[1]})
              \cup {pw.parts[i].hi} :
           i \in {i \in 1..Len(pw.parts) : lower(pw.parts[i].unit) \in
                                               {<<" ","k","g">>, S_kg}}}

KgValues == {n.value[1] : n \in {n \in KgNumbers : n.value # None}}
KgMin == CHOOSE v \in KgValues : \A w \in KgValues : v <= w
KgMax == CHOOSE v \in KgValues : \A w \in KgValues : w <= v

----------------------------------------------------------------------------
(* Properties of the last stage, checked under SpecEnrich *)

\* the raw fields of the infobox whose parser raises
FailedFields(raw) == {k \in DOMAIN raw : apply_parser(k, raw[k]) = None}

\* the normalized fields the parser of raw field k derives on its own
DerivedFields(raw, k) == apply_parser(k, raw[k])[1]

\* C13: when the parser of one raw field fails, the normalized fields of the
\* other raw fields of the infobox are still derived (they are in specs after
\* the parsing stage, with the values their parser gives, and in the item
\* returned), and the resolution still returns an item.
C13_ParseFailureConfined ==
    FailedFields(en.raw) # {} =>
      /\ en.pc = "parsed" =>
            \A k \in DOMAIN en.raw \ FailedFields(en.raw) :
            \A f \in DOMAIN DerivedFields(en.raw, k) :
               f \in DOMAIN en.specs /\ en.specs[f] = DerivedFields(en.raw, k)[f]
      /\ en.pc = "done" =>
            /\ en.out # None /\ Len(en.out[1]) = 1
            /\ \A k \in DOMAIN en.raw \ FailedFields(en.raw) :
               \A f \in DOMAIN DerivedFields(en.raw, k) :
                  f \in DOMAIN en.out[1][1].specs

\* C16: when the structured-claim fetch for the resolved title returns a block
\* with at least one direct quantity claim, the item returned and cached holds
\* that block under '_wikidata', next to the '_wiki' block.
C16_WikidataBlockAttached ==
    (en.pc = "done" /\ en.wd # None /\ en.wd[1].quantities # NoFields) =>
      LET item == en.out[1][1]
      IN  /\ "_wiki" \in DOMAIN item
          /\ "_wikidata" \in DOMAIN item
          /\ item["_wikidata"] = en.wd[1]
          /\ _cache_get(cache, en.title, now) = Some(item)

\* the value of specs[f], None when specs has no key f
field(specs, f) == IF f \in DOMAIN specs THEN Some(specs[f]) ELSE None

\* C17: for the first P1112 record with a non-zero amount a, after the merge:
\* label watt gives power_kw = round(a/1000, 1), label kilowatt gives
\* power_kw = round(a, 1), labels horsepower and hp give power_hp = round(a, 1),
\* the other unit derived with 1.34102; any other label stores the record
\* under wikidata_P1112 and leaves power_kw and power_hp as the parsers left
\* them.
C17_PowerMergeFamilies ==
    (/\ en.pc = "merged"
     /\ en.wd # None
     /\ has_first(en.wd[1].quantities, "P1112")
     /\ truthy_amount(en.wd[1].quantities["P1112"][1].amount)) =>
      LET val == en.wd[1].quantities["P1112"][1]
          a == val.amount[1]
          unit == unit_of(val)
          before == parse_units(en.raw)
      IN  IF unit = S_watt
          THEN /\ field(en.specs, "power_kw") = Some(round1(a \div 1000))
               /\ field(en.specs, "power_hp")
                    = Some(round1_ratio(a \div 1000, 134102, 100000))
          ELSE IF unit = S_kilowatt
          THEN /\ field(en.specs, "power_kw") = Some(round1(a))
               /\ field(en.specs, "power_hp") = Some(round1_ratio(a, 134102, 100000))
          ELSE IF unit \in {S_horsepower, S_hp}
          THEN /\ field(en.specs, "power_hp") = Some(round1(a))
               /\ field(en.specs, "power_kw") = Some(round1_ratio(a, 100000, 134102))
          ELSE /\ field(en.specs, "wikidata_P1112") = Some(val)
               /\ field(en.specs, "power_kw") = field(before, "power_kw")
               /\ field(en.specs, "power_hp") = field(before, "power_hp")

----------------------------------------------------------------------------
(* Properties of the entity fetches of a resolution, under SpecLinked *)

\* the outbound calls of one wikidata_fetch_claims_for_title call that has
\* fetched d linked entities: the title lookup, the title's entity and its
\* unit labels, then per linked entity the entity, its instance-of labels
\* and its unit labels
CallBound(d) == 2 + MaxUnits + d * (1 + MaxP31 + MaxUnits)

\* the candidate loop is at or past its last candidate and no call is pending
Resolved == lq.pc = "done"

\* C21: a resolution whose outbound calls all return reaches its end, and on
\* the way: the loop visits each returned candidate at most once, at most the
\* 8 the search was asked for; wikidata_fetch_claims_for_title is called at
\* most twice per visited candidate and once for the resolved title; each
\* such call fetches every entity the title's entity links to exactly once
\* and no other entity except for a label (instance-of targets and units),
\* so its outbound calls are bounded by the links of the title's entity
\* whatever the fetched entities link to.
C21_ResolutionTerminates ==
    /\ [](/\ lq.i <= lq.n
          /\ lq.n <= SearchLimit
          /\ lq.passes <= 2 * lq.i + 1
          /\ lq.fetched \cup lq.qids = lq.linked
          /\ lq.fetched \cap lq.qids = {}
          /\ lq.calls <= CallBound(Cardinality(lq.fetched)))
    /\ <>Resolved

\* a resolution has ended after visiting both returned candidates, and its
\* last claims fetch followed a link to an entity that links back to itself
\* or to the title's entity
C21_Witness ==
    /\ Resolved
    /\ lq.n >= 2
    /\ lq.i = lq.n
    /\ lq.passes >= 3
    /\ lq.cyc
    /\ lq.fetched = lq.linked
    /\ lq.labelled

====
